---- MODULE Spec2Model ----
(***************************************************************************)
(* Model of the rayhunter daemon's diag pipeline (bin/src/diag.rs):        *)
(* run_diag_read_thread, the start_recording / stop_recording HTTP         *)
(* handlers and the ctrl-c task of bin/src/daemon.rs, which share the      *)
(* recording store behind a write lock, the control channel and the UI     *)
(* notification channel.                                                   *)
(***************************************************************************)
EXTENDS Integers, Sequences, FiniteSets, TLC

\* ------------------------------------------------------------------ bounds
\* Number of containers the device stream delivers in a run.
MaxContainers == 2
\* Largest number of payload bytes in one container (0 = no message data).
MaxBytes == 1
\* Number of start_recording requests served (entries created) in a run.
MaxEntries == 2
\* Number of stop_recording requests served in a run.
MaxStops == 1

\* ------------------------------------------------------- program constants
\* mpsc::channel::<DiagDeviceCtrlMessage>(1)
CtrlCapacity == 1
\* mpsc::channel::<framebuffer::DisplayState>(1)
UiCapacity == 1
\* Option::None for an Option<usize> / Option<writer>; entries are 1..MaxEntries.
None == 0

VARIABLES
    pc,                     \* position of the run_diag_read_thread task
    maybe_qmdl_writer,      \* None or the entry whose raw file the writer owns
    maybe_analysis_writer,  \* None or the entry whose analysis file it owns
    container,              \* the container being processed (or NoContainer)
    analysis_output,        \* (analysis_file_len, heuristic_warning) of it
    total_written,          \* QmdlWriter.total_written, per writer
    analyzer,               \* AnalysisWriter state, per writer
    ctrl_chan,              \* messages in flight on the control channel
    ctrl_senders,           \* TRUE while some Sender of it is alive
    ui_chan,                \* DisplayState events in flight
    ui_rx,                  \* TRUE while the UI Receiver is alive
    lock,                   \* holder of the qmdl_store write lock
    store,                  \* RecordingStore: current_entry and entries
    h_pc,                   \* position of the HTTP handler being served
    h_count,                \* requests served so far: [start, stop]
    h_call,                 \* the request served last: handler, store as it
                            \* found it, response (once it has returned)
    ctrlc_pc,               \* position of the ctrl-c task
    stream,                 \* device stream: "live" or "ended"
    arrived,                \* containers delivered by the stream so far
    recorded,               \* history: container ids written, per writer
    analyzed,               \* history: container ids analyzed, per analyzer
    closes,                 \* history: close() calls, per analyzer
    created,                \* history: AnalysisWriter::new calls, per entry
    log,                    \* history: events the pipeline took from select
    effects,                \* history: what the pipeline did for `container`
    codec                   \* the codec call under study: function, input, result

vars == <<pc, maybe_qmdl_writer, maybe_analysis_writer, container,
          analysis_output, total_written, analyzer, ctrl_chan, ctrl_senders,
          ui_chan, ui_rx, lock, store, h_pc, h_count, ctrlc_pc, stream,
          arrived, recorded, analyzed, closes, created, log, effects, codec,
          h_call>>

pipeVars == <<pc, maybe_qmdl_writer, maybe_analysis_writer, container,
              analysis_output, total_written, analyzer, recorded, analyzed,
              closes, created, log, effects>>

Entries == 1..MaxEntries

NoContainer == [id |-> 0, bytes |-> 0]

\* DiagDeviceCtrlMessage
StartRecording(e) == [kind |-> "StartRecording", entry |-> e]
StopRecording == [kind |-> "StopRecording", entry |-> None]
Exit == [kind |-> "Exit", entry |-> None]

\* Pipeline positions at which the task has ended.
Ended == {"returned_ok", "returned_err", "panicked"}

\* One event of the history log.
Event(ev, arg, bytes) == [ev |-> ev, arg |-> arg, bytes |-> bytes]

RECURSIVE SumBytes(_)
SumBytes(s) ==
    IF s = <<>> THEN 0 ELSE Head(s).bytes + SumBytes(Tail(s))

\* ------------------------------------------------------ recording store
\* RecordingStore::new_entry: appends an entry with zero sizes and makes it
\* the current entry.
NewEntry(st) ==
    [current_entry |-> Len(st.entries) + 1,
     entries |-> Append(st.entries,
                        [qmdl_size_bytes |-> 0, analysis_size_bytes |-> 0,
                         last_message_time |-> 0])]

\* RecordingStore::close_current_entry
CloseCurrentEntry(st) == [st EXCEPT !.current_entry = None]

UpdateEntryAnalysisSize(st, index, size) ==
    [st EXCEPT !.entries[index].analysis_size_bytes = size]

UpdateEntryQmdlSize(st, index, size) ==
    [st EXCEPT !.entries[index].qmdl_size_bytes = size]

UpdateEntryLastMessageTime(st, index, now) ==
    [st EXCEPT !.entries[index].last_message_time = now]

\* Result<(StatusCode, String), (StatusCode, String)> of a handler.
Accepted == "ACCEPTED"

InternalServerError == "INTERNAL_SERVER_ERROR"

\* No request has been served yet.
NoRequest ==
    [op |-> "none", before |-> [current_entry |-> None, entries |-> <<>>],
     response |-> "none"]

\* No codec function has been called.
NoCall == [op |-> "none"]

\* ------------------------------------------------------------- Init
Init ==
    /\ pc = "select"
    /\ maybe_qmdl_writer = None
    /\ maybe_analysis_writer = None
    /\ container = NoContainer
    /\ analysis_output = [len |-> 0, warning |-> FALSE]
    /\ total_written = [e \in Entries |-> 0]
    /\ analyzer = [e \in Entries |-> [len |-> 0, last_warning |-> FALSE]]
    /\ ctrl_chan = <<>>
    /\ ctrl_senders = TRUE
    /\ ui_chan = <<>>
    /\ ui_rx \in BOOLEAN
    /\ lock = "free"
    /\ store = [current_entry |-> None, entries |-> <<>>]
    /\ h_pc = "idle"
    /\ h_count = [start |-> 0, stop |-> 0]
    /\ h_call = NoRequest
    /\ ctrlc_pc = "waiting"
    /\ stream = "live"
    /\ arrived = 0
    /\ recorded = [e \in Entries |-> <<>>]
    /\ analyzed = [e \in Entries |-> <<>>]
    /\ closes = [e \in Entries |-> 0]
    /\ created = [e \in Entries |-> 0]
    /\ log = <<>>
    /\ effects = <<>>
    /\ codec = NoCall

\* ------------------------------------------------- collaborators' state
\* AnalysisWriter::new: a fresh analyzer with no output and no warning yet.
NewAnalyzer == [len |-> 0, last_warning |-> FALSE]

\* Rows the analyzer appends to its output for one container.
AnalysisRows == {1}

\* mpsc Sender::send on a bounded channel: it completes when there is room,
\* fails at once when the receiver is gone, and otherwise waits.
CanSend(chan, cap, rxAlive) == ~rxAlive \/ Len(chan) < cap

\* The DisplayState events the pipeline and the handlers send.
DisplayState(kind) == [kind |-> kind]

\* The step of the task after which the store guard goes out of scope.
ReleaseLock_Kept == UNCHANGED lock

ReleaseLock == lock' = "free"

\* A panic (a failed `expect`) ends the task and unwinds: a held store guard
\* is dropped.
Panic ==
    /\ pc' = "panicked"
    /\ lock' = IF lock = "diag" THEN "free" ELSE lock

\* loop { tokio::select! { .. } }: the task is at the top of its loop,
\* waiting on the control channel and the device stream.
AtSelect_OrWaitingForLock == pc \in {"select", "lock"}

AtSelect == pc = "select"

\* ------------------------------------------------- control messages
\* if let Some(analysis_writer) = maybe_analysis_writer { close() } in the
\* StartRecording arm: the analyzer attached so far is closed.
StartClosesPrevious_Skipped(old) == UNCHANGED closes

StartClosesPrevious(old) ==
    closes' = IF old # None THEN [closes EXCEPT ![old] = @ + 1] ELSE closes

\* if let Some(analysis_writer) = maybe_analysis_writer { close() } in the
\* StopRecording arm.
StopClosesAnalyzer_Skipped(old) == UNCHANGED closes

StopClosesAnalyzer(old) ==
    closes' = IF old # None THEN [closes EXCEPT ![old] = @ + 1] ELSE closes

\* maybe_qmdl_writer = None in the StopRecording arm.
StopDetachesWriter_Kept == UNCHANGED maybe_qmdl_writer

StopDetachesWriter == maybe_qmdl_writer' = None

\* DiagDeviceCtrlMessage::StartRecording((new_writer, new_analysis_file))
ServiceStart(e) ==
    LET old == maybe_analysis_writer IN
    /\ maybe_qmdl_writer' = e
    /\ StartClosesPrevious(old)
    /\ log' = Append(log, Event("Start", e, 0))
    /\ \E closeOk \in (IF old # None THEN BOOLEAN ELSE {TRUE}), newOk \in BOOLEAN :
        IF ~closeOk
        THEN /\ Panic
             /\ maybe_analysis_writer' = None
             /\ UNCHANGED <<analyzer, created>>
        ELSE /\ created' = [created EXCEPT ![e] = @ + 1]
             /\ IF newOk
                THEN /\ maybe_analysis_writer' = e
                     /\ analyzer' = [analyzer EXCEPT ![e] = NewAnalyzer]
                     /\ pc' = "select"
                     /\ UNCHANGED lock
                ELSE /\ maybe_analysis_writer' = None
                     /\ UNCHANGED analyzer
                     /\ Panic
    /\ UNCHANGED <<container, analysis_output, total_written, recorded,
                   analyzed, effects>>

\* DiagDeviceCtrlMessage::StopRecording
ServiceStop ==
    LET old == maybe_analysis_writer IN
    /\ StopDetachesWriter
    /\ maybe_analysis_writer' = None
    /\ StopClosesAnalyzer(old)
    /\ log' = Append(log, Event("Stop", old, 0))
    /\ \E closeOk \in (IF old # None THEN BOOLEAN ELSE {TRUE}) :
        IF closeOk THEN pc' = "select" /\ UNCHANGED lock ELSE Panic
    /\ UNCHANGED <<container, analysis_output, total_written, analyzer,
                   recorded, analyzed, created, effects>>

\* DiagDeviceCtrlMessage::Exit: return Ok(())
ServiceExit_KeepsLooping ==
    /\ pc' = "select"
    /\ log' = Append(log, Event("Exit", maybe_analysis_writer, 0))
    /\ UNCHANGED <<maybe_qmdl_writer, maybe_analysis_writer, container,
                   analysis_output, total_written, analyzer, recorded,
                   analyzed, closes, created, effects, lock>>

ServiceExit ==
    /\ pc' = "returned_ok"
    /\ log' = Append(log, Event("Exit", maybe_analysis_writer, 0))
    /\ UNCHANGED <<maybe_qmdl_writer, maybe_analysis_writer, container,
                   analysis_output, total_written, analyzer, recorded,
                   analyzed, closes, created, effects, lock>>

\* select!: ctrl_rx.recv() yields Some(msg)
SelectCtrl ==
    /\ AtSelect
    /\ ctrl_chan # <<>>
    /\ ctrl_chan' = Tail(ctrl_chan)
    /\ LET msg == Head(ctrl_chan) IN
        CASE msg.kind = "StartRecording" -> ServiceStart(msg.entry)
          [] msg.kind = "StopRecording" -> ServiceStop
          [] OTHER -> ServiceExit
    /\ UNCHANGED <<ctrl_senders, ui_chan, ui_rx, store, h_pc, h_count,
                   ctrlc_pc, stream, arrived>>
    /\ UNCHANGED <<codec, h_call>>

\* select!: ctrl_rx.recv() yields None (every Sender dropped, channel empty)
SelectClosed_ReturnsErr ==
    /\ AtSelect
    /\ ctrl_chan = <<>>
    /\ ~ctrl_senders
    /\ pc' = "returned_err"
    /\ log' = Append(log, Event("Closed", maybe_analysis_writer, 0))
    /\ UNCHANGED <<maybe_qmdl_writer, maybe_analysis_writer, container,
                   analysis_output, total_written, analyzer, ctrl_chan,
                   ctrl_senders, ui_chan, ui_rx, lock, store, h_pc, h_count,
                   ctrlc_pc, stream, arrived, recorded, analyzed, closes,
                   created, effects>>
    /\ UNCHANGED <<codec, h_call>>

SelectClosed ==
    /\ AtSelect
    /\ ctrl_chan = <<>>
    /\ ~ctrl_senders
    /\ pc' = "returned_ok"
    /\ log' = Append(log, Event("Closed", maybe_analysis_writer, 0))
    /\ UNCHANGED <<maybe_qmdl_writer, maybe_analysis_writer, container,
                   analysis_output, total_written, analyzer, ctrl_chan,
                   ctrl_senders, ui_chan, ui_rx, lock, store, h_pc, h_count,
                   ctrlc_pc, stream, arrived, recorded, analyzed, closes,
                   created, effects>>
    /\ UNCHANGED <<codec, h_call>>

\* ------------------------------------------------- device stream
\* select!: diag_stream.try_next() yields Ok(Some(container))
SelectContainer ==
    /\ AtSelect
    /\ stream = "live"
    /\ arrived < MaxContainers
    /\ \E b \in 0..MaxBytes :
        /\ container' = [id |-> arrived + 1, bytes |-> b]
        /\ log' = Append(log, Event("Container", arrived + 1, b))
    /\ arrived' = arrived + 1
    /\ effects' = <<>>
    /\ pc' = "write"
    /\ UNCHANGED <<maybe_qmdl_writer, maybe_analysis_writer, analysis_output,
                   total_written, analyzer, ctrl_chan, ctrl_senders, ui_chan,
                   ui_rx, lock, store, h_pc, h_count, ctrlc_pc, stream,
                   recorded, analyzed, closes, created>>
    /\ UNCHANGED <<codec, h_call>>

\* select!: diag_stream.try_next() yields Ok(None)
SelectEndOfStream_Returns ==
    /\ AtSelect
    /\ stream' = "ended"
    /\ pc' = "returned_ok"
    /\ log' = IF stream = "live" THEN Append(log, Event("End", 0, 0)) ELSE log
    /\ UNCHANGED <<maybe_qmdl_writer, maybe_analysis_writer, container,
                   analysis_output, total_written, analyzer, ctrl_chan,
                   ctrl_senders, ui_chan, ui_rx, lock, store, h_pc, h_count,
                   ctrlc_pc, arrived, recorded, analyzed, closes, created,
                   effects>>
    /\ UNCHANGED <<codec, h_call>>

SelectEndOfStream ==
    /\ AtSelect
    /\ stream' = "ended"
    /\ log' = IF stream = "live" THEN Append(log, Event("End", 0, 0)) ELSE log
    /\ UNCHANGED <<pc, maybe_qmdl_writer, maybe_analysis_writer, container,
                   analysis_output, total_written, analyzer, ctrl_chan,
                   ctrl_senders, ui_chan, ui_rx, lock, store, h_pc, h_count,
                   ctrlc_pc, arrived, recorded, analyzed, closes, created,
                   effects>>
    /\ UNCHANGED <<codec, h_call>>

\* What makes the stream yield Err: the read of the device fails, or the
\* bytes read do not decode as a MessagesContainer.
DeviceReadError == 1

ParseMessagesContainerError == 2

DiagDeviceError == {DeviceReadError, ParseMessagesContainerError}

\* select!: diag_stream.try_next() yields Err(err): return Err(err)
SelectStreamError_KeepsLooping ==
    /\ AtSelect
    /\ stream = "live"
    /\ pc' = "select"
    /\ \E err \in DiagDeviceError : log' = Append(log, Event("Error", err, 0))
    /\ UNCHANGED <<maybe_qmdl_writer, maybe_analysis_writer, container,
                   analysis_output, total_written, analyzer, ctrl_chan,
                   ctrl_senders, ui_chan, ui_rx, lock, store, h_pc, h_count,
                   ctrlc_pc, stream, arrived, recorded, analyzed, closes,
                   created, effects>>
    /\ UNCHANGED <<codec, h_call>>

SelectStreamError ==
    /\ AtSelect
    /\ stream = "live"
    /\ pc' = "returned_err"
    /\ \E err \in DiagDeviceError : log' = Append(log, Event("Error", err, 0))
    /\ UNCHANGED <<maybe_qmdl_writer, maybe_analysis_writer, container,
                   analysis_output, total_written, analyzer, ctrl_chan,
                   ctrl_senders, ui_chan, ui_rx, lock, store, h_pc, h_count,
                   ctrlc_pc, stream, arrived, recorded, analyzed, closes,
                   created, effects>>
    /\ UNCHANGED <<codec, h_call>>

\* ------------------------------------------------- container processing
\* QmdlWriter::write_container: the container's bytes are appended to the raw
\* file and counted in total_written.
WriteContainer(w, c) ==
    /\ recorded' = [recorded EXCEPT ![w] = Append(@, c.id)]
    /\ total_written' = [total_written EXCEPT ![w] = @ + c.bytes]

\* if let Some(qmdl_writer) = maybe_qmdl_writer.as_mut()
WriterAttached_UnlessEmpty == maybe_qmdl_writer # None /\ container.bytes > 0

WriterAttached_ByStore == store.current_entry # None

WriterAttached == maybe_qmdl_writer # None

\* if let Some(analysis_writer) = maybe_analysis_writer.as_mut()
AnalyzerAttached == maybe_analysis_writer # None

\* if let Some(qmdl_writer) = maybe_qmdl_writer.as_mut() { write_container }
PipeWrite ==
    /\ pc = "write"
    /\ IF WriterAttached
       THEN \E ok \in BOOLEAN :
              IF ok
              THEN /\ WriteContainer(maybe_qmdl_writer, container)
                   /\ effects' = Append(effects, "write")
                   /\ pc' = "analyze"
                   /\ UNCHANGED lock
              ELSE /\ Panic
                   /\ UNCHANGED <<recorded, total_written, effects>>
       ELSE /\ pc' = "analyze"
            /\ UNCHANGED <<recorded, total_written, effects, lock>>
    /\ UNCHANGED <<maybe_qmdl_writer, maybe_analysis_writer, container,
                   analysis_output, analyzer, ctrl_chan, ctrl_senders,
                   ui_chan, ui_rx, store, h_pc, h_count, ctrlc_pc, stream,
                   arrived, analyzed, closes, created, log>>
    /\ UNCHANGED <<codec, h_call>>

\* AnalysisWriter::analyze: the container is analyzed; the cumulative output
\* grows by the rows written for it, and the attack flag and the latest
\* warning are whatever the heuristics found.
Analyze(a, c, rows, warning, detail) ==
    /\ analyzed' = [analyzed EXCEPT ![a] = Append(@, c.id)]
    /\ analyzer' = [analyzer EXCEPT
                      ![a].len = @ + rows,
                      ![a].last_warning = @ \/ (warning /\ detail)]
    /\ analysis_output' = [len |-> analyzer[a].len + rows, warning |-> warning]

\* if let Some(analysis_writer) = maybe_analysis_writer.as_mut() { analyze }
PipeAnalyze ==
    /\ pc = "analyze"
    /\ IF AnalyzerAttached
       THEN \E ok \in BOOLEAN :
              IF ok
              THEN /\ \E rows \in AnalysisRows, warning \in BOOLEAN, detail \in BOOLEAN :
                        Analyze(maybe_analysis_writer, container, rows,
                                warning, detail)
                   /\ effects' = Append(effects, "analyze")
                   /\ pc' = "lock"
                   /\ UNCHANGED lock
              ELSE /\ Panic
                   /\ UNCHANGED <<analyzed, analyzer, analysis_output, effects>>
       ELSE /\ pc' = "select"
            /\ UNCHANGED <<analyzed, analyzer, analysis_output, effects, lock>>
    /\ UNCHANGED <<maybe_qmdl_writer, maybe_analysis_writer, container,
                   total_written, ctrl_chan, ctrl_senders, ui_chan, ui_rx,
                   store, h_pc, h_count, ctrlc_pc, stream, arrived, recorded,
                   closes, created, log>>
    /\ UNCHANGED <<codec, h_call>>

\* qmdl_store_lock.write().await; current_entry.expect(..);
\* update_entry_analysis_size(index, analysis_file_len).expect(..)
PipeLock ==
    /\ pc = "lock"
    /\ lock = "free"
    /\ IF store.current_entry = None
       THEN /\ pc' = "panicked"
            /\ effects' = Append(effects, "lock")
            /\ UNCHANGED <<lock, store>>
       ELSE \E ok \in BOOLEAN :
              IF ok
              THEN /\ lock' = "diag"
                   /\ store' = UpdateEntryAnalysisSize(store, store.current_entry,
                                                       analysis_output.len)
                   /\ effects' = effects \o <<"lock", "analysis_size">>
                   /\ pc' = IF analysis_output.warning THEN "warn" ELSE "size"
              ELSE /\ pc' = "panicked"
                   /\ effects' = Append(effects, "lock")
                   /\ UNCHANGED <<lock, store>>
    /\ UNCHANGED <<maybe_qmdl_writer, maybe_analysis_writer, container,
                   analysis_output, total_written, analyzer, ctrl_chan,
                   ctrl_senders, ui_chan, ui_rx, h_pc, h_count, ctrlc_pc,
                   stream, arrived, recorded, analyzed, closes, created, log>>
    /\ UNCHANGED <<codec, h_call>>

\* if let Some(warning_details) = analysis_writer.get_last_warning()
\* { AnalysisWarning { message, severity } } else { WarningDetected }
WarningState_Generic == DisplayState("WarningDetected")

WarningState ==
    DisplayState(IF analyzer[maybe_analysis_writer].last_warning
                 THEN "AnalysisWarning" ELSE "WarningDetected")

\* if heuristic_warning { ui_update_sender.send(AnalysisWarning{..} or
\* WarningDetected).await.expect(..) }
PipeWarn ==
    /\ pc = "warn"
    /\ CanSend(ui_chan, UiCapacity, ui_rx)
    /\ IF ui_rx
       THEN /\ ui_chan' = Append(ui_chan, WarningState)
            /\ effects' = Append(effects, WarningState.kind)
            /\ pc' = "size"
            /\ UNCHANGED lock
       ELSE /\ Panic
            /\ UNCHANGED <<ui_chan, effects>>
    /\ UNCHANGED <<maybe_qmdl_writer, maybe_analysis_writer, container,
                   analysis_output, total_written, analyzer, ctrl_chan,
                   ctrl_senders, ui_rx, store, h_pc, h_count, ctrlc_pc,
                   stream, arrived, recorded, analyzed, closes, created, log>>
    /\ UNCHANGED <<codec, h_call>>

\* if let Some(qmdl_writer) .. if let Some(index) = current_entry ..
\* if entries[index].qmdl_size_bytes != updated_size { update_entry_qmdl_size
\* .expect(..); update_entry_last_message_time (an error is only logged) }
SizeChanged_Always ==
    /\ maybe_qmdl_writer # None
    /\ store.current_entry # None

SizeChanged_ByContainer ==
    /\ maybe_qmdl_writer # None
    /\ store.current_entry # None
    /\ container.bytes > 0

SizeChanged ==
    /\ maybe_qmdl_writer # None
    /\ store.current_entry # None
    /\ store.entries[store.current_entry].qmdl_size_bytes
           # total_written[maybe_qmdl_writer]

PipeSize ==
    /\ pc = "size"
    /\ LET updated_size == total_written[maybe_qmdl_writer]
           index == store.current_entry
       IN IF SizeChanged
          THEN \E ok \in BOOLEAN, timeOk \in BOOLEAN :
                 IF ok
                 THEN /\ store' =
                           IF timeOk
                           THEN UpdateEntryLastMessageTime(
                                    UpdateEntryQmdlSize(store, index, updated_size),
                                    index, arrived)
                           ELSE UpdateEntryQmdlSize(store, index, updated_size)
                      /\ effects' = effects \o
                           (IF timeOk THEN <<"qmdl_size", "last_message_time">>
                            ELSE <<"qmdl_size">>)
                      /\ pc' = "status"
                      /\ UNCHANGED lock
                 ELSE /\ Panic
                      /\ UNCHANGED <<store, effects>>
          ELSE /\ pc' = "select"
               /\ ReleaseLock
               /\ UNCHANGED <<store, effects>>
    /\ UNCHANGED <<maybe_qmdl_writer, maybe_analysis_writer, container,
                   analysis_output, total_written, analyzer, ctrl_chan,
                   ctrl_senders, ui_chan, ui_rx, h_pc, h_count, ctrlc_pc,
                   stream, arrived, recorded, analyzed, closes, created, log>>
    /\ UNCHANGED <<codec, h_call>>

\* let _ = send_detailed_status_direct(..).await; then the guard is dropped
PipeStatus ==
    /\ pc = "status"
    /\ CanSend(ui_chan, UiCapacity, ui_rx)
    /\ IF ui_rx
       THEN /\ ui_chan' = Append(ui_chan, DisplayState("DetailedStatus"))
            /\ effects' = Append(effects, "DetailedStatus")
       ELSE UNCHANGED <<ui_chan, effects>>
    /\ pc' = "select"
    /\ ReleaseLock
    /\ UNCHANGED <<maybe_qmdl_writer, maybe_analysis_writer, container,
                   analysis_output, total_written, analyzer, ctrl_chan,
                   ctrl_senders, ui_rx, store, h_pc, h_count, ctrlc_pc,
                   stream, arrived, recorded, analyzed, closes, created, log>>
    /\ UNCHANGED <<codec, h_call>>

\* One step of the run_diag_read_thread task.
Pipeline ==
    \/ SelectCtrl
    \/ SelectClosed
    \/ SelectContainer
    \/ SelectEndOfStream
    \/ SelectStreamError
    \/ PipeWrite
    \/ PipeAnalyze
    \/ PipeLock
    \/ PipeWarn
    \/ PipeSize
    \/ PipeStatus

\* ------------------------------------------------- HTTP handlers
\* What every handler step leaves alone: the pipeline task's own state.
HandlerFrame ==
    UNCHANGED <<pipeVars, ctrl_senders, ui_rx, ctrlc_pc, stream, arrived,
                codec>>

\* A handler returns Ok((ACCEPTED, ..)) or, through `map_err(..)?`,
\* Err((INTERNAL_SERVER_ERROR, ..)): the store guard is dropped.
HandlerReturn(response) ==
    /\ h_pc' = "idle"
    /\ lock' = "free"
    /\ h_call' = [h_call EXCEPT !.response = response]

\* A handler is entered: it has the store lock and has not returned yet.
HandlerCall(op) == [op |-> op, before |-> store, response |-> "none"]

\* start_recording: qmdl_store_lock.write().await; qmdl_store.new_entry()
StartRecordingBegin ==
    /\ h_pc = "idle"
    /\ ctrl_senders
    /\ h_count.start < MaxEntries
    /\ lock = "free"
    /\ h_count' = [h_count EXCEPT !.start = @ + 1]
    /\ \E ok \in BOOLEAN :
        IF ok
        THEN /\ store' = NewEntry(store)
             /\ lock' = "http"
             /\ h_pc' = "start_ctrl"
             /\ h_call' = HandlerCall("start_recording")
        ELSE /\ h_call' = [HandlerCall("start_recording")
                              EXCEPT !.response = InternalServerError]
             /\ UNCHANGED <<store, lock, h_pc>>
    /\ UNCHANGED <<ctrl_chan, ui_chan>>
    /\ HandlerFrame

\* diag_device_ctrl_sender.send(StartRecording((qmdl_writer, analysis_file)))
StartRecordingSendCtrl ==
    /\ h_pc = "start_ctrl"
    /\ CanSend(ctrl_chan, CtrlCapacity, pc \notin Ended)
    /\ IF pc \notin Ended
       THEN /\ ctrl_chan' = Append(ctrl_chan, StartRecording(store.current_entry))
            /\ h_pc' = "start_ui"
            /\ UNCHANGED <<lock, h_call>>
       ELSE /\ HandlerReturn(InternalServerError)
            /\ UNCHANGED ctrl_chan
    /\ UNCHANGED <<store, ui_chan, h_count>>
    /\ HandlerFrame

\* ui_update_sender.send(Recording / RecordingCBM)
StartRecordingSendUi ==
    /\ h_pc = "start_ui"
    /\ CanSend(ui_chan, UiCapacity, ui_rx)
    /\ IF ui_rx
       THEN /\ ui_chan' = Append(ui_chan, DisplayState("Recording"))
            /\ h_pc' = "start_detail"
            /\ UNCHANGED <<lock, h_call>>
       ELSE /\ HandlerReturn(InternalServerError)
            /\ UNCHANGED ui_chan
    /\ UNCHANGED <<store, ctrl_chan, h_count>>
    /\ HandlerFrame

\* if current_entry.is_some() { send_detailed_status_direct(..)? }; Ok(ACCEPTED)
StartRecordingSendDetail ==
    /\ h_pc = "start_detail"
    /\ store.current_entry # None => CanSend(ui_chan, UiCapacity, ui_rx)
    /\ ui_chan' = IF store.current_entry # None /\ ui_rx
                  THEN Append(ui_chan, DisplayState("DetailedStatus"))
                  ELSE ui_chan
    /\ HandlerReturn(IF store.current_entry # None /\ ~ui_rx
                     THEN InternalServerError ELSE Accepted)
    /\ UNCHANGED <<store, ctrl_chan, h_count>>
    /\ HandlerFrame

\* stop_recording: qmdl_store_lock.write().await; with no current entry it
\* goes straight to close_current_entry()
StopRecordingBegin ==
    /\ h_pc = "idle"
    /\ ctrl_senders
    /\ h_count.stop < MaxStops
    /\ lock = "free"
    /\ h_count' = [h_count EXCEPT !.stop = @ + 1]
    /\ IF store.current_entry # None
       THEN /\ lock' = "http"
            /\ h_pc' = "stop_detail"
            /\ h_call' = HandlerCall("stop_recording")
       ELSE \E ok \in BOOLEAN :
              IF ok
              THEN /\ lock' = "http"
                   /\ h_pc' = "stop_ctrl"
                   /\ h_call' = HandlerCall("stop_recording")
              ELSE /\ h_call' = [HandlerCall("stop_recording")
                                    EXCEPT !.response = InternalServerError]
                   /\ UNCHANGED <<lock, h_pc>>
    /\ UNCHANGED <<store, ctrl_chan, ui_chan>>
    /\ HandlerFrame

\* send_detailed_status_direct(..)?; qmdl_store.close_current_entry()?
StopRecordingSendDetail ==
    /\ h_pc = "stop_detail"
    /\ CanSend(ui_chan, UiCapacity, ui_rx)
    /\ IF ui_rx
       THEN /\ ui_chan' = Append(ui_chan, DisplayState("DetailedStatus"))
            /\ \E ok \in BOOLEAN :
                 IF ok
                 THEN /\ store' = CloseCurrentEntry(store)
                      /\ h_pc' = "stop_ctrl"
                      /\ UNCHANGED <<lock, h_call>>
                 ELSE /\ HandlerReturn(InternalServerError)
                      /\ UNCHANGED store
       ELSE /\ HandlerReturn(InternalServerError)
            /\ UNCHANGED <<ui_chan, store>>
    /\ UNCHANGED <<ctrl_chan, h_count>>
    /\ HandlerFrame

\* diag_device_ctrl_sender.send(StopRecording)
StopRecordingSendCtrl ==
    /\ h_pc = "stop_ctrl"
    /\ CanSend(ctrl_chan, CtrlCapacity, pc \notin Ended)
    /\ IF pc \notin Ended
       THEN /\ ctrl_chan' = Append(ctrl_chan, StopRecording)
            /\ h_pc' = "stop_ui"
            /\ UNCHANGED <<lock, h_call>>
       ELSE /\ HandlerReturn(InternalServerError)
            /\ UNCHANGED ctrl_chan
    /\ UNCHANGED <<store, ui_chan, h_count>>
    /\ HandlerFrame

\* ui_update_sender.send(Paused); Ok(ACCEPTED)
StopRecordingSendUi ==
    /\ h_pc = "stop_ui"
    /\ CanSend(ui_chan, UiCapacity, ui_rx)
    /\ ui_chan' = IF ui_rx THEN Append(ui_chan, DisplayState("Paused")) ELSE ui_chan
    /\ HandlerReturn(IF ui_rx THEN Accepted ELSE InternalServerError)
    /\ UNCHANGED <<store, ctrl_chan, h_count>>
    /\ HandlerFrame

\* ------------------------------------------------- ctrl-c task
\* ctrl_c() fires: take the store lock, close the current entry, signal the
\* server and the UI to shut down. A failed close returns before Exit is sent.
CtrlCBegin ==
    /\ ctrlc_pc = "waiting"
    /\ lock = "free"
    /\ IF store.current_entry # None
       THEN \E ok \in BOOLEAN :
              IF ok
              THEN /\ store' = CloseCurrentEntry(store)
                   /\ lock' = "ctrlc"
                   /\ ctrlc_pc' = "send_exit"
              ELSE /\ ctrlc_pc' = "failed"
                   /\ UNCHANGED <<store, lock>>
       ELSE /\ lock' = "ctrlc"
            /\ ctrlc_pc' = "send_exit"
            /\ UNCHANGED store
    /\ UNCHANGED <<pipeVars, ctrl_chan, ctrl_senders, ui_chan, ui_rx, h_pc,
                   h_count, stream, arrived>>
    /\ UNCHANGED <<codec, h_call>>

\* diag_device_sender.send(Exit).await.expect(..); the guard is dropped when
\* the task returns
CtrlCSendExit ==
    /\ ctrlc_pc = "send_exit"
    /\ CanSend(ctrl_chan, CtrlCapacity, pc \notin Ended)
    /\ IF pc \notin Ended
       THEN /\ ctrl_chan' = Append(ctrl_chan, Exit)
            /\ ctrlc_pc' = "done"
       ELSE /\ ctrlc_pc' = "failed"
            /\ UNCHANGED ctrl_chan
    /\ lock' = "free"
    /\ UNCHANGED <<pipeVars, ctrl_senders, ui_chan, ui_rx, store, h_pc,
                   h_count, stream, arrived>>
    /\ UNCHANGED <<codec, h_call>>

\* The server has shut down and the ctrl-c task has ended: every Sender of
\* the control channel is dropped.
SendersDropped ==
    /\ ctrl_senders
    /\ ctrlc_pc \in {"done", "failed"}
    /\ h_pc = "idle"
    /\ ctrl_senders' = FALSE
    /\ UNCHANGED <<pipeVars, ctrl_chan, ui_chan, ui_rx, lock, store, h_pc,
                   h_count, ctrlc_pc, stream, arrived>>
    /\ UNCHANGED <<codec, h_call>>

\* ------------------------------------------------- UI task
\* update_ui: ui_update_rx.try_recv() takes the next DisplayState
UiReceive ==
    /\ ui_rx
    /\ ui_chan # <<>>
    /\ ui_chan' = Tail(ui_chan)
    /\ UNCHANGED <<pipeVars, ctrl_chan, ctrl_senders, ui_rx, lock, store,
                   h_pc, h_count, ctrlc_pc, stream, arrived>>
    /\ UNCHANGED <<codec, h_call>>

\* update_ui: the UI shutdown signal breaks the loop (or, its Sender dropped
\* by a ctrl-c task that failed, try_recv panics); the Receiver is dropped
UiShutdown ==
    /\ ui_rx
    /\ ctrlc_pc # "waiting"
    /\ ui_rx' = FALSE
    /\ ui_chan' = <<>>
    /\ UNCHANGED <<pipeVars, ctrl_chan, ctrl_senders, lock, store, h_pc,
                   h_count, ctrlc_pc, stream, arrived>>
    /\ UNCHANGED <<codec, h_call>>

Handlers ==
    \/ StartRecordingBegin
    \/ StartRecordingSendCtrl
    \/ StartRecordingSendUi
    \/ StartRecordingSendDetail
    \/ StopRecordingBegin
    \/ StopRecordingSendDetail
    \/ StopRecordingSendCtrl
    \/ StopRecordingSendUi

Environment ==
    \/ CtrlCBegin
    \/ CtrlCSendExit
    \/ SendersDropped
    \/ UiReceive
    \/ UiShutdown

Next == Pipeline \/ Handlers \/ Environment

Spec == Init /\ [][Next]_vars

\* ------------------------------------------------- scheduling
\* The steps the task takes by itself once a container is in hand.
ContainerStep ==
    PipeWrite \/ PipeAnalyze \/ PipeLock \/ PipeWarn \/ PipeSize \/ PipeStatus

\* The steps of a handler that has been entered, and of the ctrl-c task once
\* the signal has come.
RequestStep ==
    \/ StartRecordingSendCtrl
    \/ StartRecordingSendUi
    \/ StartRecordingSendDetail
    \/ StopRecordingSendDetail
    \/ StopRecordingSendCtrl
    \/ StopRecordingSendUi
    \/ CtrlCSendExit

\* The runtime keeps polling every spawned task that can make a step; the
\* select! (not `biased`) starts its poll at a branch chosen at random, so a
\* control message that is ready again and again is eventually the one taken.
FairSpec ==
    /\ Spec
    /\ WF_vars(ContainerStep)
    /\ SF_vars(SelectCtrl)
    /\ WF_vars(SelectClosed)
    /\ WF_vars(RequestStep)
    /\ WF_vars(UiReceive)

\* ================================================= diag codec (src/diag.rs)
\* Bounds of the codec inputs.
\* Largest log_mask_bitsize given to build_log_mask_request.
MaxBitsize == 17

\* What every codec step leaves alone: the daemon's state.
CodecFrame ==
    UNCHANGED <<pipeVars, ctrl_chan, ctrl_senders, ui_chan, ui_rx, lock,
                store, h_pc, h_count, h_call, ctrlc_pc, stream, arrived>>

\* a | b on unsigned integers
RECURSIVE BitOr(_, _)
BitOr(a, b) ==
    IF a = 0 THEN b
    ELSE IF b = 0 THEN a
    ELSE (IF a % 2 = 1 \/ b % 2 = 1 THEN 1 ELSE 0)
             + 2 * BitOr(a \div 2, b \div 2)

\* Bit n of the unsigned integer v.
Bit(v, n) == (v \div (2 ^ n)) % 2

\* ------------------------------------------------- build_log_mask_request
\* let log_code: u32 = (log_type << 12) | i   (the inputs of the model keep
\* log_type below 2^19, where the u32 shift loses no bit)
LogCode(log_type, i) == BitOr(log_type * 4096, i)

\* 1 << num_bits_written
BitMask_MsbFirst(num_bits_written) == 2 ^ (7 - num_bits_written)

BitMask(num_bits_written) == 2 ^ num_bits_written

\* if num_bits_written == 8 || i == log_mask_bitsize - 1
ByteComplete_FullOnly(num_bits_written, i, log_mask_bitsize) ==
    num_bits_written = 8

ByteComplete(num_bits_written, i, log_mask_bitsize) ==
    num_bits_written = 8 \/ i = log_mask_bitsize - 1

\* for i in 0..log_mask_bitsize { .. }: the loop from iteration i on, with the
\* values of its three mutable locals
RECURSIVE LogMaskLoop(_, _, _, _, _, _, _)
LogMaskLoop(i, log_type, log_mask_bitsize, accepted_log_codes, current_byte, num_bits_written, log_mask) ==
    IF i >= log_mask_bitsize THEN log_mask
    ELSE LET byte == IF LogCode(log_type, i) \in accepted_log_codes
                     THEN BitOr(current_byte, BitMask(num_bits_written))
                     ELSE current_byte
             written == num_bits_written + 1
         IN IF ByteComplete(written, i, log_mask_bitsize)
            THEN LogMaskLoop(i + 1, log_type, log_mask_bitsize,
                             accepted_log_codes, 0, 0, Append(log_mask, byte))
            ELSE LogMaskLoop(i + 1, log_type, log_mask_bitsize,
                             accepted_log_codes, byte, written, log_mask)

\* Request::LogConfig(LogConfigRequest::SetMask { .. })
SetMask(log_type, log_mask_bitsize, log_mask) ==
    [kind |-> "SetMask", log_type |-> log_type,
     log_mask_bitsize |-> log_mask_bitsize, log_mask |-> log_mask]

\* Request::LogConfig(LogConfigRequest::RetrieveIdRanges)
RetrieveIdRanges == [kind |-> "RetrieveIdRanges"]

build_log_mask_request(log_type, log_mask_bitsize, accepted_log_codes) ==
    SetMask(log_type, log_mask_bitsize,
            LogMaskLoop(0, log_type, log_mask_bitsize, accepted_log_codes,
                        0, 0, <<>>))

\* The log types and the accepted codes the calls are made with: codes of
\* the first bits of each byte, of the last bit of a byte and of the first
\* of the next, one past a short mask, and one of another log type.
LogTypes == {0, 1, 11}

CodeOffsets == {0, 1, 7, 8, 16}

AcceptedCodeSets(log_type) ==
    SUBSET ({log_type * 4096 + o : o \in CodeOffsets} \union {4096 * 5 + 1})

\* A call of build_log_mask_request.
CallBuildLogMaskRequest ==
    /\ codec = NoCall
    /\ \E log_type \in LogTypes, bitsize \in 0..MaxBitsize :
         \E codes \in AcceptedCodeSets(log_type) :
            codec' = [op |-> "build_log_mask_request",
                      log_type |-> log_type,
                      log_mask_bitsize |-> bitsize,
                      accepted_log_codes |-> codes,
                      result |-> build_log_mask_request(log_type, bitsize,
                                                        codes)]
    /\ CodecFrame

\* ------------------------------------------------- encoding (DekuWrite)
\* Longest hdlc_encapsulated_request / log_mask drawn byte by byte.
MaxRequestLen == 2

\* A u32 written with endian = "little"; structs that declare no byte order
\* are written in the target's native order, little-endian on the targets
\* the crate is built and tested for.
U32Bytes_BigEndian(v) ==
    <<(v \div 16777216) % 256, (v \div 65536) % 256, (v \div 256) % 256,
      v % 256>>

U32Bytes(v) ==
    <<v % 256, (v \div 256) % 256, (v \div 65536) % 256,
      (v \div 16777216) % 256>>

\* An i32 written: two's complement, so the bytes of a negative v are the
\* complements of the bytes of -v - 1.
I32Bytes(v) ==
    IF v >= 0 THEN U32Bytes(v)
    ELSE <<255 - U32Bytes(-v - 1)[1], 255 - U32Bytes(-v - 1)[2],
           255 - U32Bytes(-v - 1)[3], 255 - U32Bytes(-v - 1)[4]>>

\* enum DataType { #[deku(id = "32")] UserSpace, #[deku(id_pat = "_")] Other(u32) }
UserSpace == [variant |-> "UserSpace", value |-> 32]

Other(v) == [variant |-> "Other", value |-> v]

\* DataType, written: the id 32 of UserSpace, or the u32 that Other stores
DataTypeBytes(data_type) ==
    IF data_type.variant = "UserSpace" THEN U32Bytes(32)
    ELSE U32Bytes(data_type.value)

\* #[deku(skip, cond = "!*use_mdm")] mdm_field: i32
MdmFieldWritten_Inverted(use_mdm) == ~use_mdm

MdmFieldWritten(use_mdm) == use_mdm

\* RequestContainer::to_bytes: data_type, (use_mdm is skipped,) mdm_field
\* unless skipped, hdlc_encapsulated_request
RequestContainerBytes(rc) ==
    DataTypeBytes(rc.data_type)
        \o (IF MdmFieldWritten(rc.use_mdm) THEN I32Bytes(rc.mdm_field) ELSE <<>>)
        \o rc.hdlc_encapsulated_request

\* LogConfigRequest, written: the u32 id 1 or 3, then the fields of SetMask
LogConfigRequestBytes(req) ==
    IF req.kind = "RetrieveIdRanges" THEN U32Bytes(1)
    ELSE U32Bytes(3) \o U32Bytes(req.log_type)
             \o U32Bytes(req.log_mask_bitsize) \o req.log_mask

\* Request::to_bytes: the u32 id 115 of LogConfig, then the LogConfigRequest
RequestBytes(req) == U32Bytes(115) \o LogConfigRequestBytes(req)

\* Byte strings given as payloads: every string of up to MaxRequestLen bytes
\* over three byte values, and the one of the crate's tests.
PayloadBytes ==
    UNION {[1..n -> {0, 1, 255}] : n \in 0..MaxRequestLen}
        \union {<<1, 2, 3, 4>>}

\* The data types, mdm fields and u32 fields the calls are made with.
DataTypes == {UserSpace, Other(0), Other(64), Other(65538)}

MdmFields == {-1, 0, 1, -256}

U32Fields == {0, 11, 513, 65538}

\* A call of RequestContainer::to_bytes.
CallRequestContainerToBytes ==
    /\ codec = NoCall
    /\ \E dt \in DataTypes, use_mdm \in BOOLEAN, mdm \in MdmFields,
          data \in PayloadBytes :
         LET rc == [data_type |-> dt, use_mdm |-> use_mdm, mdm_field |-> mdm,
                    hdlc_encapsulated_request |-> data]
         IN codec' = [op |-> "RequestContainer::to_bytes", input |-> rc,
                      result |-> RequestContainerBytes(rc)]
    /\ CodecFrame

\* A call of Request::to_bytes.
CallRequestToBytes ==
    /\ codec = NoCall
    /\ \E req \in {RetrieveIdRanges} \union
                  {SetMask(lt, bs, mask) :
                       lt \in U32Fields, bs \in U32Fields, mask \in PayloadBytes} :
         codec' = [op |-> "Request::to_bytes", input |-> req,
                   result |-> RequestBytes(req)]
    /\ CodecFrame

\* ------------------------------------------------- decoding (DekuRead)
\* Most blobs written into a drawn container, and most bytes a blob declares.
MaxMessages == 2

MaxBlobLen == 2

\* What a read gives: the value and the unread bytes, a decode error (Err),
\* or a panic of the thread.
Ok(value, rest) == [ok |-> TRUE, panic |-> FALSE, value |-> value, rest |-> rest]

Fail == [ok |-> FALSE, panic |-> FALSE]

Panicked == [ok |-> FALSE, panic |-> TRUE]

\* Reading n bytes: an error if fewer are left (deku: Incomplete).
Take(buf, n) ==
    IF Len(buf) >= n THEN Ok(SubSeq(buf, 1, n), SubSeq(buf, n + 1, Len(buf)))
    ELSE Fail

\* The unsigned little-endian integers at byte i (from 1) of buf.
U8At(buf, i) == buf[i]

U16At_BigEndian(buf, i) == 256 * buf[i] + buf[i + 1]

U16At(buf, i) == buf[i] + 256 * buf[i + 1]

U32At(buf, i) ==
    buf[i] + 256 * buf[i + 1] + 65536 * buf[i + 2] + 16777216 * buf[i + 3]

\* Reading a u32.
ReadU32(buf) ==
    LET b == Take(buf, 4)
    IN IF b.ok THEN Ok(U32At(b.value, 1), b.rest) ELSE Fail

\* DataType::read: the id 32 is UserSpace, any other u32 is kept in Other
ReadDataType(buf) ==
    LET id == ReadU32(buf)
    IN IF ~id.ok THEN Fail
       ELSE IF id.value = 32 THEN Ok(UserSpace, id.rest)
       ELSE Ok(Other(id.value), id.rest)

\* HdlcEncapsulatedMessage::read: len, then data with count = len
ReadHdlcEncapsulatedMessage(buf) ==
    LET len == ReadU32(buf)
    IN IF ~len.ok THEN Fail
       ELSE LET data == Take(len.rest, len.value)
            IN IF ~data.ok THEN Fail
               ELSE Ok([len |-> len.value, data |-> data.value], data.rest)

\* messages: Vec<HdlcEncapsulatedMessage> with count = num_messages
RECURSIVE ReadMessages_UntilEnd(_, _)
ReadMessages_UntilEnd(buf, count) ==
    IF count = 0 \/ buf = <<>> THEN Ok(<<>>, buf)
    ELSE LET m == ReadHdlcEncapsulatedMessage(buf)
         IN IF ~m.ok THEN Fail
            ELSE LET ms == ReadMessages_UntilEnd(m.rest, count - 1)
                 IN IF ~ms.ok THEN Fail
                    ELSE Ok(<<m.value>> \o ms.value, ms.rest)

RECURSIVE ReadMessages(_, _)
ReadMessages(buf, count) ==
    IF count = 0 THEN Ok(<<>>, buf)
    ELSE LET m == ReadHdlcEncapsulatedMessage(buf)
         IN IF ~m.ok THEN Fail
            ELSE LET ms == ReadMessages(m.rest, count - 1)
                 IN IF ~ms.ok THEN Fail
                    ELSE Ok(<<m.value>> \o ms.value, ms.rest)

\* MessagesContainer::from_bytes: data_type, num_messages, messages
ReadMessagesContainer(buf) ==
    LET data_type == ReadDataType(buf)
    IN IF ~data_type.ok THEN Fail
       ELSE LET num_messages == ReadU32(data_type.rest)
            IN IF ~num_messages.ok THEN Fail
               ELSE LET messages == ReadMessages(num_messages.rest,
                                                 num_messages.value)
                    IN IF ~messages.ok THEN Fail
                       ELSE Ok([data_type |-> data_type.value,
                                num_messages |-> num_messages.value,
                                messages |-> messages.value], messages.rest)

\* The bytes of a list of blobs: each its len, then its data.
RECURSIVE MessagesBytes(_)
MessagesBytes(messages) ==
    IF messages = <<>> THEN <<>>
    ELSE U32Bytes(Head(messages).len) \o Head(messages).data
             \o MessagesBytes(Tail(messages))

\* buf without its last cut bytes.
DropLast(buf, cut) ==
    IF cut >= Len(buf) THEN <<>> ELSE SubSeq(buf, 1, Len(buf) - cut)

\* The blobs written into the containers drawn: the declared len is drawn
\* apart from the data (bytes 16, or bytes 0), so a blob may declare more or
\* fewer bytes than follow.
Blobs ==
    {[len |-> n, data |-> [i \in 1..k |-> b]] :
         n \in 0..MaxBlobLen, k \in 0..MaxBlobLen, b \in {0, 16}}

Cuts == {0, 1, 9}

\* Where the data of blob j starts in a container framed as messages.
RECURSIVE DataOffset(_, _)
DataOffset(messages, j) ==
    IF j = 1 THEN 12
    ELSE DataOffset(messages, j - 1) + messages[j - 1].len + 4

\* buf with every data byte of blob j given another value.
Spoil(buf, messages, j) ==
    [i \in 1..Len(buf) |->
        IF /\ i > DataOffset(messages, j)
           /\ i <= DataOffset(messages, j) + messages[j].len
        THEN buf[i] + 1 ELSE buf[i]]

\* A call of MessagesContainer::from_bytes, and one on the same bytes with
\* the content of one of the framed blobs changed.
CallMessagesContainerFromBytes ==
    /\ codec = NoCall
    /\ \E tag \in {32, 64}, count \in 0..(MaxMessages + 1),
          n \in 0..MaxMessages, cut \in Cuts :
         \E blobs \in [1..n -> Blobs] :
           LET buf == DropLast(U32Bytes(tag) \o U32Bytes(count)
                                   \o MessagesBytes(blobs), cut)
               result == ReadMessagesContainer(buf)
           IN \E j \in 0..(IF result.ok THEN Len(result.value.messages) ELSE 0) :
                LET other == IF j = 0 THEN buf
                             ELSE Spoil(buf, result.value.messages, j)
                IN codec' = [op |-> "MessagesContainer::from_bytes",
                             input |-> buf, result |-> result,
                             changed |-> j, other_input |-> other,
                             other_result |-> ReadMessagesContainer(other)]
    /\ CodecFrame

\* buf without its first n bytes.
Rest(buf, n) == SubSeq(buf, n + 1, Len(buf))

\* a - b on u16: the difference, wrapped around when a < b (a build without
\* overflow checks); a build with overflow checks panics there instead.
WrappingSub(a, b) == (a - b + 65536) % 65536

\* enum LteRrcOtaPacket, id = ext_header_version: the variant an id selects
PacketVariant_Shifted(ext_header_version) ==
    IF ext_header_version < 4 THEN "V0"
    ELSE IF ext_header_version < 7 THEN "V5"
    ELSE IF ext_header_version < 24 THEN "V8"
    ELSE "V25"

PacketVariant(ext_header_version) ==
    IF ext_header_version \in 0..4 THEN "V0"
    ELSE IF ext_header_version \in 5..7 THEN "V5"
    ELSE IF ext_header_version \in 8..24 THEN "V8"
    ELSE "V25"

\* LteRrcOtaPacket::V0: 12 bytes of fields, then packet with count = len
ReadV0(buf) ==
    IF Len(buf) < 12 THEN Fail
    ELSE LET packet == Take(Rest(buf, 12), U16At(buf, 11))
         IN IF ~packet.ok THEN Fail
            ELSE Ok([variant |-> "V0", rrc_rel_maj |-> U8At(buf, 1),
                     rrc_rel_min |-> U8At(buf, 2), bearer_id |-> U8At(buf, 3),
                     phy_cell_id |-> U16At(buf, 4), earfcn |-> U16At(buf, 6),
                     sfn_subfn |-> U16At(buf, 8), pdu_num |-> U8At(buf, 10),
                     len |-> U16At(buf, 11), packet |-> packet.value],
                    packet.rest)

\* LteRrcOtaPacket::V5: 16 bytes of fields, then packet with count = len
ReadV5(buf) ==
    IF Len(buf) < 16 THEN Fail
    ELSE LET packet == Take(Rest(buf, 16), U16At(buf, 15))
         IN IF ~packet.ok THEN Fail
            ELSE Ok([variant |-> "V5", rrc_rel_maj |-> U8At(buf, 1),
                     rrc_rel_min |-> U8At(buf, 2), bearer_id |-> U8At(buf, 3),
                     phy_cell_id |-> U16At(buf, 4), earfcn |-> U16At(buf, 6),
                     sfn_subfn |-> U16At(buf, 8), pdu_num |-> U8At(buf, 10),
                     sib_mask |-> U32At(buf, 11),
                     len |-> U16At(buf, 15), packet |-> packet.value],
                    packet.rest)

\* LteRrcOtaPacket::V8: 18 bytes of fields, then packet with count = len
ReadV8(buf) ==
    IF Len(buf) < 18 THEN Fail
    ELSE LET packet == Take(Rest(buf, 18), U16At(buf, 17))
         IN IF ~packet.ok THEN Fail
            ELSE Ok([variant |-> "V8", rrc_rel_maj |-> U8At(buf, 1),
                     rrc_rel_min |-> U8At(buf, 2), bearer_id |-> U8At(buf, 3),
                     phy_cell_id |-> U16At(buf, 4), earfcn |-> U32At(buf, 6),
                     sfn_subfn |-> U16At(buf, 10), pdu_num |-> U8At(buf, 12),
                     sib_mask |-> U32At(buf, 13),
                     len |-> U16At(buf, 17), packet |-> packet.value],
                    packet.rest)

\* LteRrcOtaPacket::V25: 20 bytes of fields, then packet with count = len
ReadV25(buf) ==
    IF Len(buf) < 20 THEN Fail
    ELSE LET packet == Take(Rest(buf, 20), U16At(buf, 19))
         IN IF ~packet.ok THEN Fail
            ELSE Ok([variant |-> "V25", rrc_rel_maj |-> U8At(buf, 1),
                     rrc_rel_min |-> U8At(buf, 2),
                     nr_rrc_rel_maj |-> U8At(buf, 3),
                     nr_rrc_rel_min |-> U8At(buf, 4), bearer_id |-> U8At(buf, 5),
                     phy_cell_id |-> U16At(buf, 6), earfcn |-> U32At(buf, 8),
                     sfn_subfn |-> U16At(buf, 12), pdu_num |-> U8At(buf, 14),
                     sib_mask |-> U32At(buf, 15),
                     len |-> U16At(buf, 19), packet |-> packet.value],
                    packet.rest)

\* LteRrcOtaPacket::read with ctx ext_header_version: no id byte is read
ReadLteRrcOtaPacket(ext_header_version, buf) ==
    CASE PacketVariant(ext_header_version) = "V0" -> ReadV0(buf)
      [] PacketVariant(ext_header_version) = "V5" -> ReadV5(buf)
      [] PacketVariant(ext_header_version) = "V8" -> ReadV8(buf)
      [] OTHER -> ReadV25(buf)

\* The log_type values that select a LogBody variant.
WcdmaSignallingMessage == 16687

GsmRrSignallingMessage == 20783

GprsMacSignallingMessage == 21030

LteRrcOtaMessage == 45248

Nas4GMessage == {45282, 45283, 45292, 45293}

IpTraffic == 4587

UmtsNasOtaMessage == 28986

NrRrcOtaMessage == 47137

\* msg: Vec<u8> with count = hdr_len - n: the subtraction is made when the
\* field is reached, and panics or wraps around when hdr_len < n.
ReadMsgOfHeader_WholeHeader(variant, fields, hdr_len, n, buf, overflow_checks) ==
    IF hdr_len < n /\ overflow_checks THEN Panicked
    ELSE LET msg == Take(buf, hdr_len)
         IN IF ~msg.ok THEN Fail
            ELSE Ok([variant |-> variant, fields |-> fields, msg |-> msg.value],
                    msg.rest)

ReadMsgOfHeader(variant, fields, hdr_len, n, buf, overflow_checks) ==
    IF hdr_len < n /\ overflow_checks THEN Panicked
    ELSE LET msg == Take(buf, WrappingSub(hdr_len, n))
         IN IF ~msg.ok THEN Fail
            ELSE Ok([variant |-> variant, fields |-> fields, msg |-> msg.value],
                    msg.rest)

\* msg: Vec<u8> with count = length, a field of the body
ReadMsgOfLength(variant, fields, length, buf) ==
    LET msg == Take(buf, length)
    IN IF ~msg.ok THEN Fail
       ELSE Ok([variant |-> variant, fields |-> fields, msg |-> msg.value],
               msg.rest)

\* LogBody::read with ctx (log_type, hdr_len), id = log_type: no id byte is
\* read, and a log_type that no variant names is an error
ReadLogBody(log_type, hdr_len, buf, overflow_checks) ==
    CASE log_type = WcdmaSignallingMessage ->
           IF Len(buf) < 4 THEN Fail
           ELSE ReadMsgOfLength("WcdmaSignallingMessage",
                    [channel_type |-> U8At(buf, 1), radio_bearer |-> U8At(buf, 2),
                     length |-> U16At(buf, 3)],
                    U16At(buf, 3), Rest(buf, 4))
      [] log_type = GsmRrSignallingMessage ->
           IF Len(buf) < 3 THEN Fail
           ELSE ReadMsgOfLength("GsmRrSignallingMessage",
                    [channel_type |-> U8At(buf, 1), message_type |-> U8At(buf, 2),
                     length |-> U8At(buf, 3)],
                    U8At(buf, 3), Rest(buf, 3))
      [] log_type = GprsMacSignallingMessage ->
           IF Len(buf) < 3 THEN Fail
           ELSE ReadMsgOfLength("GprsMacSignallingMessage",
                    [channel_type |-> U8At(buf, 1), message_type |-> U8At(buf, 2),
                     length |-> U8At(buf, 3)],
                    U8At(buf, 3), Rest(buf, 3))
      [] log_type = LteRrcOtaMessage ->
           IF Len(buf) < 1 THEN Fail
           ELSE LET packet == ReadLteRrcOtaPacket(U8At(buf, 1), Rest(buf, 1))
                IN IF ~packet.ok THEN Fail
                   ELSE Ok([variant |-> "LteRrcOtaMessage",
                            ext_header_version |-> U8At(buf, 1),
                            packet |-> packet.value], packet.rest)
      [] log_type \in Nas4GMessage ->
           IF Len(buf) < 4 THEN Fail
           ELSE ReadMsgOfHeader("Nas4GMessage",
                    [ext_header_version |-> U8At(buf, 1), rrc_rel |-> U8At(buf, 2),
                     rrc_version_minor |-> U8At(buf, 3),
                     rrc_version_major |-> U8At(buf, 4)],
                    hdr_len, 4, Rest(buf, 4), overflow_checks)
      [] log_type = IpTraffic ->
           ReadMsgOfHeader("IpTraffic", <<>>, hdr_len, 8, buf, overflow_checks)
      [] log_type = UmtsNasOtaMessage ->
           IF Len(buf) < 5 THEN Fail
           ELSE ReadMsgOfLength("UmtsNasOtaMessage",
                    [is_uplink |-> U8At(buf, 1), length |-> U32At(buf, 2)],
                    U32At(buf, 2), Rest(buf, 5))
      [] log_type = NrRrcOtaMessage ->
           ReadMsgOfHeader("NrRrcOtaMessage", <<>>, hdr_len, 0, buf,
                           overflow_checks)
      [] OTHER -> Fail

\* Timestamp::read: ts, a little-endian u64, kept as its four 16-bit limbs,
\* the least significant first
ReadTimestamp(buf) ==
    [ts |-> <<U16At(buf, 1), U16At(buf, 3), U16At(buf, 5), U16At(buf, 7)>>]

\* Message::Log, read after its id byte: 15 bytes of fields, then body with
\* ctx (log_type, inner_length - 12); the subtraction is made before the body
\* is entered, and panics or wraps around when inner_length < 12.
ReadLog(buf, overflow_checks) ==
    IF Len(buf) < 15 THEN Fail
    ELSE LET inner_length == U16At(buf, 4)
             log_type == U16At(buf, 6)
         IN IF inner_length < 12 /\ overflow_checks THEN Panicked
            ELSE LET body == ReadLogBody(log_type, WrappingSub(inner_length, 12),
                                         Rest(buf, 15), overflow_checks)
                 IN IF ~body.ok THEN body
                    ELSE Ok([variant |-> "Log", pending_msgs |-> U8At(buf, 1),
                             outer_length |-> U16At(buf, 2),
                             inner_length |-> inner_length,
                             log_type |-> log_type,
                             timestamp |-> ReadTimestamp(SubSeq(buf, 8, 15)),
                             body |-> body.value], body.rest)

\* ResponsePayload::read with ctx (opcode, subopcode): LogConfig for opcode
\* 115, and in it RetrieveIdRanges ([u32; 16]) for subopcode 1 and SetMask
\* (no field) for subopcode 3; any other id is an error
ReadResponsePayload_AnySubopcode(opcode, subopcode, buf) ==
    IF opcode # 115 THEN Fail
    ELSE IF subopcode = 1
    THEN IF Len(buf) < 64 THEN Fail
         ELSE Ok([variant |-> "RetrieveIdRanges",
                  log_mask_sizes |-> [k \in 1..16 |-> U32At(buf, 4 * k - 3)]],
                 Rest(buf, 64))
    ELSE Ok([variant |-> "SetMask"], buf)

ReadResponsePayload(opcode, subopcode, buf) ==
    IF opcode # 115 THEN Fail
    ELSE IF subopcode = 1
    THEN IF Len(buf) < 64 THEN Fail
         ELSE Ok([variant |-> "RetrieveIdRanges",
                  log_mask_sizes |-> [k \in 1..16 |-> U32At(buf, 4 * k - 3)]],
                 Rest(buf, 64))
    ELSE IF subopcode = 3 THEN Ok([variant |-> "SetMask"], buf)
    ELSE Fail

\* Message::Response, id_pat = "_": the id byte is not consumed, it is the
\* first byte of opcode
ReadResponse(buf) ==
    IF Len(buf) < 12 THEN Fail
    ELSE LET payload == ReadResponsePayload(U32At(buf, 1), U32At(buf, 5),
                                            Rest(buf, 12))
         IN IF ~payload.ok THEN Fail
            ELSE Ok([variant |-> "Response", opcode |-> U32At(buf, 1),
                     subopcode |-> U32At(buf, 5), status |-> U32At(buf, 9),
                     payload |-> payload.value], payload.rest)

\* An id that selects Message::Log
IsLogId_Any(id) == id \in {16, 17}

IsLogId(id) == id = 16

\* Message::from_bytes: a u8 id, 16 for Log and any other for Response
ReadMessage(buf, overflow_checks) ==
    IF Len(buf) < 1 THEN Fail
    ELSE IF IsLogId(U8At(buf, 1)) THEN ReadLog(Rest(buf, 1), overflow_checks)
    ELSE ReadResponse(buf)

\* ------------------------------------------------- the frames decoded
\* A u16 as 2 bytes, least significant first.
U16Bytes(v) == <<v % 256, v \div 256>>

\* The bytes of a Log: id, pending_msgs, outer_length, inner_length,
\* log_type, an 8-byte timestamp, body.
LogBytes(id, inner_length, log_type, body) ==
    <<id, 0>> \o U16Bytes(inner_length) \o U16Bytes(inner_length)
        \o U16Bytes(log_type) \o <<26, 165, 245, 135, 118, 35, 2, 1>> \o body

\* Well-formed packets of the four layouts, each with a 2-byte payload.
PacketBytes(variant) ==
    CASE variant = "V0" -> <<14, 48, 1, 100, 0, 2, 8, 89, 15, 5, 2, 0, 64, 1>>
      [] variant = "V5" ->
           <<14, 48, 1, 100, 0, 2, 8, 89, 15, 5, 3, 0, 0, 0, 2, 0, 64, 1>>
      [] variant = "V8" ->
           <<14, 48, 1, 100, 0, 2, 8, 1, 0, 89, 15, 5, 3, 0, 0, 0, 2, 0, 64, 1>>
      [] OTHER ->
           <<14, 48, 15, 2, 1, 100, 0, 2, 8, 1, 0, 89, 15, 5, 3, 0, 0, 0, 2, 0,
             64, 1>>

PacketVariants == {"V0", "V5", "V8", "V25"}

\* The body and the frame of test_logs.
ReferenceBody ==
    <<20, 14, 48, 0, 160, 0, 2, 8, 0, 0, 217, 15, 5, 0, 0, 0, 0, 7, 0,
      64, 1, 238, 173, 213, 77, 208>>

ReferenceFrame(id) == LogBytes(id, 38, LteRrcOtaMessage, ReferenceBody)

\* Bodies drawn for every log type: empty, too short for any fixed part, a
\* body with a 2-byte msg after 4 fixed bytes, one with a 2-byte msg after a
\* u8 and a u32 length, one of 8 bytes and an LTE RRC body of version 8.
Bodies ==
    {<<>>, <<1, 2>>, <<1, 2, 2, 0, 7, 9>>, <<1, 2, 0, 0, 0, 7, 9>>,
     <<1, 2, 3, 4, 5, 6, 7, 8>>, <<8>> \o PacketBytes("V8")}

FirstBytes == {0, 15, 16, 17, 115, 255}

InnerLengths == {4, 11, 12, 14, 16, 18, 20, 22}

UnknownLogTypes == {0, 45249, 65535}

KnownLogTypes ==
    {WcdmaSignallingMessage, GsmRrSignallingMessage, GprsMacSignallingMessage,
     LteRrcOtaMessage, IpTraffic, UmtsNasOtaMessage, NrRrcOtaMessage}
        \union Nas4GMessage

\* The bytes of a Response: opcode, subopcode, status, payload.
ResponseBytes(opcode, subopcode, status, payload) ==
    U32Bytes(opcode) \o U32Bytes(subopcode) \o U32Bytes(status) \o payload

\* 16 mask sizes as bytes: the sizes 1 to 16.
RECURSIVE MaskSizesBytes(_)
MaskSizesBytes(k) ==
    IF k > 16 THEN <<>> ELSE U32Bytes(k) \o MaskSizesBytes(k + 1)

\* The frames Message::from_bytes is called with: logs of every drawn type,
\* length and body under every drawn first byte, whole or cut short; LTE RRC
\* logs of every ext_header_version over every layout; the frame of
\* test_logs; three logs whose body is as long as the header length less
\* the variant's bytes is when it wraps around; responses under every drawn
\* first byte, whole or cut short; responses of drawn opcodes and subopcodes.
Frames ==
    {DropLast(LogBytes(id, inner, lt, body), cut) :
         id \in FirstBytes, inner \in InnerLengths,
         lt \in KnownLogTypes \union UnknownLogTypes, body \in Bodies,
         cut \in {0, 1}}
    \union
    {LogBytes(16, 12 + 1 + Len(PacketBytes(layout)), LteRrcOtaMessage,
              <<v>> \o PacketBytes(layout)) :
         v \in 0..255, layout \in PacketVariants}
    \union
    {DropLast(ReferenceFrame(id), cut) : id \in FirstBytes, cut \in {0, 1}}
    \union
    {LogBytes(16, 14, 45282, <<1, 2, 3, 4>> \o [i \in 1..65534 |-> 7]),
     LogBytes(16, 12, IpTraffic, [i \in 1..65528 |-> 7]),
     LogBytes(16, 11, NrRrcOtaMessage, [i \in 1..65535 |-> 7])}
    \union
    {DropLast(<<id>> \o Rest(ResponseBytes(115, sub, st, payload), 1), cut) :
         id \in FirstBytes, sub \in 0..3, st \in {0, 1},
         payload \in {<<>>, MaskSizesBytes(1)}, cut \in {0, 1}}
    \union
    {ResponseBytes(opcode, sub, st, payload) :
         opcode \in {115, 116, 371}, sub \in {1, 3, 259, 65537}, st \in {0, 1},
         payload \in {<<>>, MaskSizesBytes(1), MaskSizesBytes(1) \o <<9>>}}

\* A call of Message::from_bytes, in a build with or without overflow checks.
CallMessageFromBytes ==
    /\ codec = NoCall
    /\ \E buf \in Frames, overflow_checks \in BOOLEAN :
         codec' = [op |-> "Message::from_bytes", input |-> buf,
                   overflow_checks |-> overflow_checks,
                   result |-> ReadMessage(buf, overflow_checks)]
    /\ CodecFrame

\* ------------------------------------------------- impl LteRrcOtaPacket
get_sfn_subfn(packet) == packet.sfn_subfn

\* self.get_sfn_subfn() as u32 >> 4
get_sfn(packet) == get_sfn_subfn(packet) \div (2 ^ 4)

\* (self.get_sfn_subfn() & 0xf) as u8
get_subfn_Mask7(packet) == get_sfn_subfn(packet) % 8

get_subfn(packet) == get_sfn_subfn(packet) % 16

get_pdu_num(packet) == packet.pdu_num

\* *earfcn as u32 for the u16 of V0 and V5, *earfcn for V8 and V25
get_earfcn(packet) == packet.earfcn

take_payload(packet) == packet.packet

\* A packet of a variant with the given fields, the others zero.
Packet(variant, earfcn, sfn_subfn, pdu_num, packet) ==
    LET common == [variant |-> variant, rrc_rel_maj |-> 0, rrc_rel_min |-> 0,
                   bearer_id |-> 0, phy_cell_id |-> 0, earfcn |-> earfcn,
                   sfn_subfn |-> sfn_subfn, pdu_num |-> pdu_num,
                   len |-> Len(packet), packet |-> packet]
    IN CASE variant = "V0" -> common
         [] variant \in {"V5", "V8"} -> common @@ [sib_mask |-> 0]
         [] OTHER -> common @@ [sib_mask |-> 0, nr_rrc_rel_maj |-> 0,
                                nr_rrc_rel_min |-> 0]

\* The packets of a variant the accessors are called on: every 16-bit
\* sfn_subfn, and drawn pdu_num, earfcn (16 bits in V0 and V5) and payloads.
PacketsOf(variant) ==
    {Packet(variant, 2050, sfn_subfn, 5, <<64, 1>>) : sfn_subfn \in 0..65535}
    \union
    {Packet(variant, earfcn, 4057, pdu_num, packet) :
         earfcn \in IF variant \in {"V0", "V5"} THEN {0, 2050, 65535}
                    ELSE {0, 2050, 65535, 65536, 262143},
         pdu_num \in {0, 5, 255}, packet \in PayloadBytes}

\* The accessors called on one packet.
CallPacketAccessors ==
    /\ codec = NoCall
    /\ \E variant \in PacketVariants :
         \E packet \in PacketsOf(variant) :
           codec' = [op |-> "LteRrcOtaPacket accessors", input |-> packet,
                     result |-> [get_sfn |-> get_sfn(packet),
                                 get_subfn |-> get_subfn(packet),
                                 get_pdu_num |-> get_pdu_num(packet),
                                 get_earfcn |-> get_earfcn(packet),
                                 take_payload |-> take_payload(packet)]]
    /\ CodecFrame

\* The tags DataType::from_bytes is called with.
Tags == {0, 1, 31, 32, 33, 64, 288, 8192, 65538, 2097152, 536870944}

\* A call of DataType::from_bytes on the 4 bytes of a tag, alone or followed
\* by more.
CallDataTypeFromBytes ==
    /\ codec = NoCall
    /\ \E tag \in Tags, more \in {<<>>, <<7>>} :
         codec' = [op |-> "DataType::from_bytes", tag |-> tag,
                   input |-> U32Bytes(tag) \o more,
                   result |-> ReadDataType(U32Bytes(tag) \o more)]
    /\ CodecFrame

\* The accessors of LteRrcOtaPacket, called on the packets drawn.
AccessorNext ==
    \/ CallPacketAccessors

AccessorSpec == Init /\ [][AccessorNext]_vars

\* ------------------------------------------------- impl Timestamp
\* Numbers up to 2^49 are kept as hi * 2^20 + lo with 0 <= lo < 2^20.
Base == 1048576

Big(hi, lo) == [hi |-> hi + lo \div Base, lo |-> lo % Base]

BigAdd(a, b) == Big(a.hi + b.hi, a.lo + b.lo)

BigDiv4(a) == [hi |-> a.hi \div 4, lo |-> (a.hi % 4) * 262144 + a.lo \div 4]

\* floor(log2(n)) for n >= 1
RECURSIVE Log2(_)
Log2(n) == IF n <= 1 THEN 0 ELSE 1 + Log2(n \div 2)

\* The binary exponent of a number: the e with 2^e <= a < 2^(e+1); -1 for 0.
Exponent(a) ==
    IF a.hi > 0 THEN 20 + Log2(a.hi)
    ELSE IF a.lo > 0 THEN Log2(a.lo)
    ELSE -1

\* An f64 of this computation: int + num / 40960.
\* let ts_upper = self.ts >> 16: the upper three limbs of ts
ts_upper(timestamp) ==
    Big((timestamp.ts[3] \div 16) + timestamp.ts[4] * 4096,
        timestamp.ts[2] + (timestamp.ts[3] % 16) * 65536)

\* let ts_lower = self.ts & 0xffff
ts_lower(timestamp) == timestamp.ts[1]

\* ts_upper as f64 * 1.25: exact, ts_upper having 48 bits
Ticks(upper) ==
    [int |-> BigAdd(upper, BigDiv4(upper)), num |-> (upper.lo % 4) * 10240]

\* ts_lower as f64 / 40960.0
SubTick_Thousandfold(lower) == [int |-> Big(0, 0), num |-> lower * 1000]

SubTick(lower) == [int |-> Big(0, 0), num |-> lower]

\* delta_seconds += ...: the f64 sum, rounded to 53 significant bits. Rounding
\* moves the sum to the whole number above it when it lies within half a
\* unit in the last place below that number (ties go to the even
\* significand, the whole number); any other rounding keeps the whole part.
F64Add(a, b) ==
    LET int == BigAdd(BigAdd(a.int, b.int), Big(0, (a.num + b.num) \div 40960))
        num == (a.num + b.num) % 40960
        fraction_bits == 52 - Exponent(int)
    IN IF /\ Exponent(int) >= 0
          /\ num > 0
          /\ fraction_bits + 1 <= 15
          /\ (40960 - num) * 2 ^ (fraction_bits + 1) <= 40960
       THEN [int |-> BigAdd(int, Big(0, 1)), num |-> 0]
       ELSE [int |-> int, num |-> num]

\* The epoch parsed in to_datetime.
Epoch == "1980-01-06T00:00:00-00:00"

\* Timestamp::to_datetime: epoch + Duration::milliseconds(delta_seconds as
\* i64), the cast dropping the fraction
to_datetime(timestamp) ==
    LET delta_seconds == F64Add(Ticks(ts_upper(timestamp)),
                                SubTick(ts_lower(timestamp)))
    IN [epoch |-> Epoch, milliseconds |-> delta_seconds.int]

\* The limbs of the ts values to_datetime is called on.
Limbs0 == {0, 1, 42, 9639, 10239, 10240, 20479, 40959, 40960, 42266, 65535}

Limbs1 == {0, 1, 2, 3, 34805, 65535}

Limbs2 == {0, 9078, 65535}

Limbs3 == {0, 1, 31, 32, 51, 52, 258, 32768, 65535}

\* A call of Timestamp::to_datetime.
CallToDatetime ==
    /\ codec = NoCall
    /\ \E w0 \in Limbs0, w1 \in Limbs1, w2 \in Limbs2, w3 \in Limbs3 :
         codec' = [op |-> "Timestamp::to_datetime",
                   input |-> [ts |-> <<w0, w1, w2, w3>>],
                   result |-> to_datetime([ts |-> <<w0, w1, w2, w3>>])]
    /\ CodecFrame

CodecNext ==
    \/ CallBuildLogMaskRequest
    \/ CallToDatetime
    \/ CallDataTypeFromBytes
    \/ CallMessageFromBytes
    \/ CallMessagesContainerFromBytes
    \/ CallRequestContainerToBytes
    \/ CallRequestToBytes

CodecSpec == Init /\ [][CodecNext]_vars

\* ================================================= properties
Count(seq, x) == Cardinality({i \in DOMAIN seq : seq[i] = x})

Last(seq) == seq[Len(seq)]

Max(S) == CHOOSE x \in S : \A y \in S : y <= x

\* The control messages serviced before the k-th event of the log.
CtrlBefore(k) == {j \in 1..(k - 1) : log[j].ev \in {"Start", "Stop"}}

\* The entry whose sinks were attached when the k-th event was taken from the
\* select (None when the pipeline was Idle).
ActiveEntryAt(k) ==
    IF CtrlBefore(k) = {} THEN None
    ELSE LET j == Max(CtrlBefore(k))
         IN IF log[j].ev = "Start" THEN log[j].arg ELSE None

\* The pipeline has just serviced an event of kind ev.
Serviced(ev) ==
    /\ Len(log') = Len(log) + 1
    /\ Last(log').ev = ev

\* C1: a container delivered while the pipeline is Active is appended to the
\* attached recorder exactly once and passed to the attached analyzer exactly
\* once, the append coming first (it is there before the analyzer runs,
\* whatever the analysis gives), and to no other recorder or analyzer.
C1_ActiveContainerRecordedThenAnalyzedOnce ==
    \A k \in DOMAIN log :
        LET e == ActiveEntryAt(k)
            id == log[k].arg
            over == k < Len(log)
            written == over \/ pc \in {"analyze", "lock", "warn", "size",
                                       "status", "select"}
            analysed == over \/ pc \in {"lock", "warn", "size", "status",
                                        "select"}
        IN (log[k].ev = "Container" /\ e # None) =>
             /\ Count(analyzed[e], id) <= Count(recorded[e], id)
             /\ Count(recorded[e], id) <= 1
             /\ written => Count(recorded[e], id) = 1
             /\ analysed => Count(analyzed[e], id) = 1
             /\ \A f \in Entries \ {e} :
                    Count(recorded[f], id) = 0 /\ Count(analyzed[f], id) = 0

\* C1 witness: two containers arrived while Active; both are in the recorder
\* and both went through the analyzer.
C1_Witness ==
    /\ pc = "select"
    /\ maybe_qmdl_writer # None
    /\ Len(recorded[maybe_qmdl_writer]) = 2
    /\ Len(analyzed[maybe_qmdl_writer]) = 2

\* C2: wherever the task waits on the select, the recorder is attached iff
\* the analyzer is, both for the same entry, and the analyzers created and
\* not yet closed are exactly the attached one (at most one).
C2_SinksToggledTogether ==
    pc = "select" =>
        /\ maybe_qmdl_writer = maybe_analysis_writer
        /\ \A e \in Entries :
             created[e] - closes[e] =
                 (IF maybe_analysis_writer = e THEN 1 ELSE 0)

\* C2 witness: a second StartRecording was serviced and a StopRecording
\* after it; the task is back at the select.
C2_Witness ==
    /\ pc = "select"
    /\ \E i, j, k \in DOMAIN log :
         /\ i < j /\ j < k
         /\ log[i].ev = "Start" /\ log[j].ev = "Start" /\ log[k].ev = "Stop"

\* C3 (as claimed): when the task has returned Ok, an analyzer that was
\* attached at that moment has been closed.
C3_SinksClosedBeforeReturn ==
    (pc = "returned_ok" /\ maybe_analysis_writer # None) =>
        closes[maybe_analysis_writer] >= 1

\* C4: servicing StartRecording(e) closes the analyzer attached so far (its
\* one and only close) and, when the step does not fail, leaves writer and
\* analyzer e attached, the analyzer newly created; containers only ever go
\* to the attached recorder and analyzer, never to one that was closed.
C4_StartReplacesSinks ==
    [][/\ Serviced("Start") =>
            LET e == Last(log').arg
                old == maybe_analysis_writer
            IN /\ old # None =>
                      /\ closes[old] = 0
                      /\ closes'[old] = 1
                      /\ old # e
               /\ \A f \in Entries \ {old} : closes'[f] = closes[f]
               /\ pc' = "select" =>
                      /\ maybe_qmdl_writer' = e
                      /\ maybe_analysis_writer' = e
                      /\ created'[e] = 1
                      /\ created[e] = 0
       /\ \A f \in Entries :
            /\ recorded'[f] # recorded[f] =>
                   maybe_qmdl_writer = f /\ closes[f] = 0
            /\ analyzed'[f] # analyzed[f] =>
                   maybe_analysis_writer = f /\ closes[f] = 0
      ]_vars

\* C4 witness: a recording was replaced by a second one; the first analyzer
\* is closed and both recorders hold a container.
C4_Witness ==
    /\ pc = "select"
    /\ maybe_analysis_writer = 2
    /\ closes[1] = 1
    /\ Len(recorded[1]) >= 1
    /\ Len(recorded[2]) >= 1

\* C5: servicing StopRecording detaches both sinks; an attached analyzer is
\* closed by it, once and for the first time; with nothing attached nothing
\* is closed and the task stays at the select.
C5_StopDetachesAndCloses ==
    [][Serviced("Stop") =>
          LET old == maybe_analysis_writer
          IN /\ maybe_qmdl_writer' = None
             /\ maybe_analysis_writer' = None
             /\ created' = created
             /\ IF old # None
                THEN /\ closes[old] = 0
                     /\ closes' = [closes EXCEPT ![old] = 1]
                ELSE /\ closes' = closes
                     /\ pc' = "select"
      ]_vars

\* C5 witness: StopRecording was serviced while a recording that holds a
\* container was attached.
C5_Witness ==
    /\ pc = "select"
    /\ log # <<>>
    /\ Last(log).ev = "Stop"
    /\ Last(log).arg # None
    /\ closes[Last(log).arg] = 1
    /\ Len(recorded[Last(log).arg]) >= 1
    /\ maybe_qmdl_writer = None

\* C6: Exit is taken only at the select and makes the task return Ok; once
\* it has returned Ok the task does nothing more: it receives nothing, writes
\* and analyzes nothing, never takes the store lock, sends no notification.
C6_ExitIsTerminal ==
    [][/\ Serviced("Exit") =>
            /\ pc = "select"
            /\ pc' = "returned_ok"
            /\ UNCHANGED <<maybe_qmdl_writer, maybe_analysis_writer, closes>>
       /\ pc = "returned_ok" =>
            /\ UNCHANGED pipeVars
            /\ Len(ctrl_chan') >= Len(ctrl_chan)
            /\ arrived' = arrived
            /\ lock' # "diag"
      ]_vars

\* C6 witness: Exit arrived while a recording was attached.
C6_Witness ==
    /\ pc = "returned_ok"
    /\ Last(log).ev = "Exit"
    /\ Last(log).arg # None

\* A control receive has completed in this step.
CtrlReceived ==
    /\ Len(log') = Len(log) + 1
    /\ Last(log').ev \in {"Start", "Stop", "Exit", "Closed"}

\* C7 (as claimed): once every Sender is dropped, the next control receive
\* makes the task return Ok.
C7_NextReceiveAfterDropReturns ==
    [][(~ctrl_senders /\ CtrlReceived) => pc' = "returned_ok"]_vars

\* C7 (amended): once every Sender is dropped and the channel holds no
\* message, the next control receive makes the task return Ok, attached
\* sinks or not, and nothing is processed after it.
C7_ClosedChannelReturns ==
    [][/\ (~ctrl_senders /\ ctrl_chan = <<>> /\ CtrlReceived) =>
            /\ Last(log').ev = "Closed"
            /\ pc' = "returned_ok"
            /\ UNCHANGED <<maybe_qmdl_writer, maybe_analysis_writer, closes>>
       /\ (log # <<>> /\ Last(log).ev = "Closed") =>
            /\ UNCHANGED pipeVars
            /\ arrived' = arrived
      ]_vars

\* C7 witness: the channel closed while a recording was attached.
C7_Witness ==
    /\ pc = "returned_ok"
    /\ Last(log).ev = "Closed"
    /\ Last(log).arg # None

\* C8: a container taken while nothing is attached passes through the task
\* without a write, an analysis, a store update, the store lock or a
\* notification.
C8_IdleContainerDiscarded ==
    [][(/\ pc \in {"write", "analyze"}
        /\ maybe_qmdl_writer = None
        /\ maybe_analysis_writer = None
        /\ pc' # pc) =>
          /\ pc' = IF pc = "write" THEN "analyze" ELSE "select"
          /\ UNCHANGED <<recorded, analyzed, total_written, analyzer,
                         analysis_output, store, lock, ui_chan, effects,
                         closes, created>>
      ]_vars

\* C8 witness: after a recording was stopped a container came and went,
\* leaving no trace, while the store has a current entry again.
C8_Witness ==
    /\ pc = "select"
    /\ Len(log) >= 2
    /\ Last(log).ev = "Container"
    /\ log[Len(log) - 1].ev = "Stop"
    /\ log[Len(log) - 1].arg # None
    /\ effects = <<>>
    /\ store.current_entry # None

StrictlyIncreasing(seq) ==
    \A i, j \in DOMAIN seq : i < j => seq[i] < seq[j]

\* Ids of the containers in the log, in the order the stream delivered them.
Arrivals == SelectSeq(log, LAMBDA ev : ev.ev = "Container")

\* C9: containers are taken in arrival order; what each recorder and each
\* analyzer got is in that order too; and a next event (a container or a
\* control message) is taken only when the task is back at the select, every
\* step for the previous container done and the store lock released.
C9_ArrivalOrder ==
    [][/\ log' # log => (pc = "select" /\ lock # "diag")
       /\ \A i \in DOMAIN Arrivals : Arrivals[i].arg = i
       /\ \A e \in Entries :
            /\ StrictlyIncreasing(recorded'[e])
            /\ StrictlyIncreasing(analyzed'[e])
      ]_vars

\* C9 witness: the first container went to the first recording and the
\* second to the one that replaced it.
C9_Witness ==
    /\ pc = "select"
    /\ recorded[1] = <<1>>
    /\ recorded[2] = <<2>>
    /\ analyzed[2] = <<2>>

\* The events between the last StartRecording and the StopRecording that
\* ends the log.
SinceLastStart ==
    LET s == Max({j \in DOMAIN log : log[j].ev = "Start"})
    IN SubSeq(log, s + 1, Len(log) - 1)

\* C10 (as claimed): StartRecording, then N containers, then StopRecording,
\* all serviced without a failure: N containers recorded, N analyzed, and the
\* entry's raw size in the store is the sum of their bytes.
C10_StartFeedStop ==
    (/\ pc = "select"
     /\ log # <<>>
     /\ Last(log).ev = "Stop"
     /\ Last(log).arg # None
     /\ \A i \in DOMAIN SinceLastStart : SinceLastStart[i].ev = "Container") =>
        LET e == Last(log).arg
        IN /\ Len(recorded[e]) = Len(SinceLastStart)
           /\ Len(analyzed[e]) = Len(SinceLastStart)
           /\ store.entries[e].qmdl_size_bytes = SumBytes(SinceLastStart)

\* ------------------------------------------------- failures
\* Steps of the task in which a write or a store update returned an error,
\* told by what the step left undone.
WriteFailed ==
    pc = "write" /\ WriterAttached /\ pc' # pc /\ recorded' = recorded

AnalyzeFailed ==
    pc = "analyze" /\ AnalyzerAttached /\ pc' # pc /\ analyzed' = analyzed

AnalysisSizeFailed ==
    /\ pc = "lock" /\ pc' # pc
    /\ store.current_entry # None
    /\ effects' = Append(effects, "lock")

RawSizeFailed ==
    /\ pc = "size" /\ pc' # pc
    /\ maybe_qmdl_writer # None
    /\ store.current_entry # None
    /\ store.entries[store.current_entry].qmdl_size_bytes
           # total_written[maybe_qmdl_writer]
    /\ store' = store

LastMessageTimeFailed ==
    pc = "size" /\ pc' # pc /\ effects' = Append(effects, "qmdl_size")

\* Once the task has ended it takes nothing from the control channel or the
\* stream and records, analyzes and updates nothing.
NothingAfterEnd ==
    pc \in Ended =>
        /\ UNCHANGED pipeVars
        /\ Len(ctrl_chan') >= Len(ctrl_chan)
        /\ arrived' = arrived
        /\ lock' # "diag"

\* C11 (as claimed): a failed recorder write, analyzer call or store update
\* (analysis size, raw size, last-message time) ends the task in that very
\* step, and an ended task records, analyzes and services nothing more.
C11_FailureTerminates ==
    [][/\ (\/ WriteFailed
           \/ AnalyzeFailed
           \/ AnalysisSizeFailed
           \/ RawSizeFailed
           \/ LastMessageTimeFailed) => pc' \in Ended
       /\ NothingAfterEnd
      ]_vars

\* C12: a read error of the device stream is taken at the select and makes
\* the task return that error, sinks left as they were; after it the task
\* takes no container and no control message and processes nothing.
C12_StreamErrorTerminates ==
    [][/\ Serviced("Error") =>
            /\ pc = "select"
            /\ pc' = "returned_err"
            /\ UNCHANGED <<maybe_qmdl_writer, maybe_analysis_writer, recorded,
                           analyzed, store, lock>>
       /\ (log # <<>> /\ Last(log).ev = "Error") =>
            /\ pc = "returned_err"
            /\ UNCHANGED pipeVars
            /\ arrived' = arrived
            /\ Len(ctrl_chan') >= Len(ctrl_chan)
            /\ lock' # "diag"
      ]_vars

\* C12 witness: the stream failed in the middle of a recording, one container
\* recorded and another still to come.
C12_Witness ==
    /\ pc = "returned_err"
    /\ Last(log).ev = "Error"
    /\ maybe_qmdl_writer # None
    /\ Len(recorded[maybe_qmdl_writer]) = 1
    /\ arrived < MaxContainers

\* C13 (as claimed): when a container fails to decode, the task goes back to
\* the select, where the next container of the stream is received.
C13_MalformedContainerSkipped ==
    [][(/\ Serviced("Error")
        /\ Last(log').arg = ParseMessagesContainerError) => pc' = "select"
      ]_vars

\* C14: end-of-stream is taken at the select and leaves the task there, with
\* the sinks it had (Idle stays Idle, Active stays Active), nothing closed
\* and the control channel untouched; with the stream ended, a control
\* message waiting in the channel can be received whenever the task is at
\* the select.
C14_EndOfStreamKeepsLooping ==
    /\ [][Serviced("End") =>
            /\ pc = "select"
            /\ pc' = "select"
            /\ UNCHANGED <<maybe_qmdl_writer, maybe_analysis_writer, closes,
                           created, recorded, analyzed, store, lock,
                           ctrl_chan, ctrl_senders>>
         ]_vars
    /\ []((stream = "ended" /\ pc = "select" /\ ctrl_chan # <<>>) =>
              ENABLED SelectCtrl)

\* C14 witness: the stream ended while a recording was attached; the
\* StopRecording sent after that was serviced and the task waits again.
C14_Witness ==
    /\ pc = "select"
    /\ stream = "ended"
    /\ Len(log) >= 2
    /\ Last(log).ev = "Stop"
    /\ Last(log).arg # None
    /\ log[Len(log) - 1].ev = "End"

\* C15 (as claimed): each control message and each container is serviced
\* exactly once (a receive takes the head of the channel and services just
\* that message; no entry is started twice, no more stops are serviced than
\* were requested, containers are taken one by one in order), and while the
\* loop runs a control message in the channel is eventually received.
C15_ServicedOnceAndNotStarved ==
    /\ [][/\ CtrlReceived => pc = "select"
          /\ (CtrlReceived /\ Last(log').ev # "Closed") =>
                /\ ctrl_chan # <<>>
                /\ ctrl_chan' = Tail(ctrl_chan)
                /\ Last(log').ev = (IF Head(ctrl_chan).kind = "StartRecording"
                                    THEN "Start"
                                    ELSE IF Head(ctrl_chan).kind = "StopRecording"
                                    THEN "Stop" ELSE "Exit")
          /\ Len(ctrl_chan') < Len(ctrl_chan) => CtrlReceived
          /\ arrived' # arrived =>
                /\ arrived' = arrived + 1
                /\ Serviced("Container")
                /\ Last(log').arg = arrived'
          /\ Serviced("Container") => arrived' = arrived + 1
         ]_vars
    /\ [](/\ \A e \in Entries :
               Cardinality({k \in DOMAIN log :
                               log[k].ev = "Start" /\ log[k].arg = e}) <= 1
          /\ Cardinality({k \in DOMAIN log : log[k].ev = "Stop"})
                 <= h_count.stop
          /\ Cardinality({k \in DOMAIN log : log[k].ev = "Exit"}) <= 1)
    /\ (ctrl_chan # <<>>) ~> (ctrl_chan = <<>> \/ pc \in Ended)

\* C16: the task holds the store lock (exclusively: it is the write side)
\* exactly from the metadata update of a container to the end of that
\* container's processing: it takes it only in the step after the analyzer
\* call, once per container, and does not hold it at the select (waiting on
\* the control channel and the stream), during the recorder write or the
\* analyzer call, nor after it has ended.
C16_LockOnlyForMetadataUpdate ==
    /\ [](/\ lock = "diag" <=> pc \in {"warn", "size", "status"}
          /\ Count(effects, "lock") <= 1)
    /\ [][/\ (lock # "diag" /\ lock' = "diag") =>
                /\ pc = "lock"
                /\ lock = "free"
                /\ Count(effects, "lock") = 0
          /\ (lock = "diag" /\ pc' = "select") => lock' = "free"
         ]_vars

\* C16 witness: two containers processed while Active, the lock taken for
\* each and free again at the select.
C16_Witness ==
    /\ pc = "select"
    /\ lock = "free"
    /\ maybe_analysis_writer # None
    /\ Len(analyzed[maybe_analysis_writer]) = 2
    /\ Count(effects, "lock") = 1
    /\ store.entries[store.current_entry].analysis_size_bytes = 2

\* C17 (as claimed): where the task sends (and may wait) on the bounded
\* notification channel, the warning and the detailed status, it no longer
\* holds the store lock.
C17_NoSendUnderLock ==
    pc \in {"warn", "status"} => lock # "diag"

\* C18 (as claimed): a notification the task is about to send never makes it
\* wait or end: with the channel full or the receiver gone the task's next
\* step is possible at once, drops the notification and leaves the task
\* running.
C18_NotificationBestEffort ==
    /\ [](pc \in {"warn", "status"} => ENABLED ContainerStep)
    /\ [][(/\ pc \in {"warn", "status"}
           /\ pc' # pc
           /\ (~ui_rx \/ Len(ui_chan) = UiCapacity)) =>
                /\ pc' \notin Ended
                /\ ui_chan' = ui_chan
         ]_vars

\* The two warning notifications.
Warnings == {"AnalysisWarning", "WarningDetected"}

\* Warning notifications sent for the container in hand.
WarningsSent == Cardinality({i \in DOMAIN effects : effects[i] \in Warnings})

\* C19: after the analysis of a container the task goes to send a warning
\* iff the analyzer set the attack flag; the one it sends is AnalysisWarning
\* when the analyzer has a last warning and WarningDetected otherwise; once
\* past the warning step a flagged container has had exactly one of the two
\* and an unflagged one none; a warning enters the notification channel in
\* no other step.
C19_WarningIffFlagged ==
    /\ [](/\ pc = "warn" => (analysis_output.warning /\ WarningsSent = 0)
          /\ pc \in {"size", "status"} =>
                WarningsSent = (IF analysis_output.warning THEN 1 ELSE 0))
    /\ [][/\ (pc = "warn" /\ pc' = "size") =>
                /\ ui_chan' = Append(ui_chan,
                       DisplayState(
                          IF analyzer[maybe_analysis_writer].last_warning
                          THEN "AnalysisWarning" ELSE "WarningDetected"))
                /\ effects' = Append(effects, Last(ui_chan').kind)
          /\ (/\ Len(ui_chan') > Len(ui_chan)
              /\ Last(ui_chan').kind \in Warnings) => pc = "warn"
         ]_vars

\* C19 witness: a flagged container whose analyzer has warning details: one
\* AnalysisWarning is in the channel and the task has moved on.
C19_Witness ==
    /\ pc = "size"
    /\ analysis_output.warning
    /\ analyzer[maybe_analysis_writer].last_warning
    /\ Count(effects, "AnalysisWarning") = 1
    /\ Count(effects, "WarningDetected") = 0
    /\ ui_chan = <<DisplayState("AnalysisWarning")>>

\* The step that completes the processing of a container taken while Active.
ContainerDone == pc \in {"size", "status"} /\ pc' = "select"

C21_StatusIffSizeChanged ==
    [][/\ (pc = "size" /\ pc' \in {"status", "select"}) =>
            /\ pc' = "status" <=>
                  store.entries[store.current_entry].qmdl_size_bytes
                      # total_written[maybe_qmdl_writer]
            /\ ui_chan' = ui_chan
            /\ Count(effects', "DetailedStatus") = 0
       /\ (pc = "status" /\ pc' # pc) =>
            /\ pc' = "select"
            /\ IF ui_rx
               THEN /\ ui_chan' = Append(ui_chan, DisplayState("DetailedStatus"))
                    /\ Count(effects', "DetailedStatus") = 1
               ELSE /\ ui_chan' = ui_chan
                    /\ Count(effects', "DetailedStatus") = 0
       /\ Count(effects', "DetailedStatus") > Count(effects, "DetailedStatus")
              => pc = "status"
      ]_vars

\* C21 witness: two containers of one byte each were processed; the second
\* changed the stored raw size from 1 to 2 and its detailed status is in the
\* channel.
C21_Witness ==
    /\ pc = "select"
    /\ arrived = 2
    /\ store.current_entry # None
    /\ store.entries[store.current_entry].qmdl_size_bytes = 2
    /\ Last(effects) = "DetailedStatus"
    /\ ui_chan = <<DisplayState("DetailedStatus")>>

\* The mask a call of build_log_mask_request returned.
MaskBuilt == codec.op = "build_log_mask_request"

\* C22: in the mask build_log_mask_request returns, for every bit index i
\* below the bitsize, bit i % 8 of byte i / 8 is set iff the code
\* (log_type << 12) | i is among the accepted codes; the request is SetMask
\* with the log_type and the bitsize it was given.
C22_MaskBitIffCodeAccepted ==
    MaskBuilt =>
        LET r == codec.result
        IN /\ r.kind = "SetMask"
           /\ r.log_type = codec.log_type
           /\ r.log_mask_bitsize = codec.log_mask_bitsize
           /\ \A i \in 0..(codec.log_mask_bitsize - 1) :
                /\ (i \div 8) + 1 \in DOMAIN r.log_mask
                /\ Bit(r.log_mask[(i \div 8) + 1], i % 8) = 1 <=>
                       (codec.log_type * 4096 + i) \in codec.accepted_log_codes

\* C22 witness: log type 11, 17 bits, the codes of bits 1, 7, 8 and 16
\* accepted with one of another log type: the mask is 0x82 0x01 0x01.
C22_Witness ==
    /\ MaskBuilt
    /\ codec.log_type = 11
    /\ codec.log_mask_bitsize = 17
    /\ codec.accepted_log_codes =
           {11 * 4096 + 1, 11 * 4096 + 7, 11 * 4096 + 8, 11 * 4096 + 16,
            4096 * 5 + 1}
    /\ codec.result.log_mask = <<130, 1, 1>>

\* C23: the mask has ceil(bitsize / 8) bytes, none for bitsize 0, and in a
\* last byte that is only partly used the bits from position bitsize % 8 up
\* are zero.
C23_MaskLength ==
    MaskBuilt =>
        LET mask == codec.result.log_mask
            bitsize == codec.log_mask_bitsize
        IN /\ Len(mask) = (bitsize + 7) \div 8
           /\ \A k \in DOMAIN mask : mask[k] \in 0..255
           /\ bitsize % 8 # 0 =>
                \A n \in (bitsize % 8)..7 : Bit(mask[Len(mask)], n) = 0

\* C23 witness: 9 bits with the code of bit 8 accepted: two bytes, the
\* second one holding just that bit.
C23_Witness ==
    /\ MaskBuilt
    /\ codec.log_mask_bitsize = 9
    /\ codec.log_type = 1
    /\ 4096 + 8 \in codec.accepted_log_codes
    /\ codec.result.log_mask = <<0, 1>>

\* The value of four bytes read as a little-endian unsigned integer.
LeValue(b) == b[1] + 256 * b[2] + 65536 * b[3] + 16777216 * b[4]

\* A RequestContainer has been encoded.
ContainerEncoded == codec.op = "RequestContainer::to_bytes"

RequestEncoded == codec.op = "Request::to_bytes"

\* C25: a Request encodes as the opcode 115 and the subopcode as 32-bit
\* little-endian values: subopcode 1 and nothing more for RetrieveIdRanges;
\* subopcode 3, then log_type and log_mask_bitsize as 32-bit little-endian
\* values, then the mask bytes verbatim for SetMask.
C25_RequestEncoding ==
    RequestEncoded =>
        LET req == codec.input
            out == codec.result
        IN /\ Len(out) >= 8
           /\ SubSeq(out, 1, 4) = <<115, 0, 0, 0>>
           /\ IF req.kind = "RetrieveIdRanges"
              THEN out = <<115, 0, 0, 0, 1, 0, 0, 0>>
              ELSE /\ SubSeq(out, 5, 8) = <<3, 0, 0, 0>>
                   /\ Len(out) = 16 + Len(req.log_mask)
                   /\ LeValue(SubSeq(out, 9, 12)) = req.log_type
                   /\ LeValue(SubSeq(out, 13, 16)) = req.log_mask_bitsize
                   /\ \A k \in 9..16 : out[k] \in 0..255
                   /\ SubSeq(out, 17, Len(out)) = req.log_mask

\* C25 witness: SetMask for log type 11 with 513 bits and a two-byte mask.
C25_Witness ==
    /\ RequestEncoded
    /\ codec.input = SetMask(11, 513, <<1, 255>>)
    /\ codec.result = <<115, 0, 0, 0, 3, 0, 0, 0, 11, 0, 0, 0, 1, 2, 0, 0,
                        1, 255>>

\* A MessagesContainer has been decoded.
ContainerDecoded == codec.op = "MessagesContainer::from_bytes"

\* Where count blobs that start after byte pos of buf end, going by the
\* length prefixes alone; -1 if buf ends before.
RECURSIVE BlobsEnd(_, _, _)
BlobsEnd(buf, pos, count) ==
    IF count = 0 THEN pos
    ELSE IF pos + 4 > Len(buf) THEN -1
    ELSE LET len == LeValue(SubSeq(buf, pos + 1, pos + 4))
         IN IF pos + 4 + len > Len(buf) THEN -1
            ELSE BlobsEnd(buf, pos + 4 + len, count - 1)

\* buf holds a tag, a count and the blobs the count and the lengths declare.
LongEnough(buf) ==
    /\ Len(buf) >= 8
    /\ BlobsEnd(buf, 8, LeValue(SubSeq(buf, 5, 8))) >= 0

\* C26: decoding a MessagesContainer gives exactly num_messages blobs, each
\* with exactly its declared number of bytes, taken in order from the buffer;
\* it fails as a whole iff the buffer is too short for the declared count or
\* a declared length; and changing the content of one blob changes neither
\* the framing nor the bytes of the other blobs.
C26_ContainerFraming ==
    ContainerDecoded =>
        LET buf == codec.input
            r == codec.result
            o == codec.other_result
        IN /\ ~r.panic
           /\ r.ok <=> LongEnough(buf)
           /\ r.ok =>
                LET c == r.value
                IN /\ Len(c.messages) = c.num_messages
                   /\ \A k \in 1..Len(c.messages) :
                        Len(c.messages[k].data) = c.messages[k].len
                   /\ buf = U32Bytes(c.data_type.value)
                                \o U32Bytes(c.num_messages)
                                \o MessagesBytes(c.messages) \o r.rest
                   /\ o.ok
                   /\ o.value.num_messages = c.num_messages
                   /\ o.rest = r.rest
                   /\ \A k \in 1..Len(c.messages) :
                        /\ o.value.messages[k].len = c.messages[k].len
                        /\ k # codec.changed =>
                             o.value.messages[k].data = c.messages[k].data
           /\ ~r.ok => ~codec.other_result.ok

\* C26 witness: a container of two blobs is framed, and framed the same when
\* the first blob's two bytes are changed to ones that are no Message.
C26_Witness ==
    /\ ContainerDecoded
    /\ codec.input = <<32, 0, 0, 0, 2, 0, 0, 0, 2, 0, 0, 0, 16, 16,
                       1, 0, 0, 0, 16>>
    /\ codec.result.ok
    /\ codec.result.value.messages =
           <<[len |-> 2, data |-> <<16, 16>>], [len |-> 1, data |-> <<16>>]>>
    /\ codec.changed = 1
    /\ codec.other_result.value.messages =
           <<[len |-> 2, data |-> <<17, 17>>], [len |-> 1, data |-> <<16>>]>>

\* A Message has been decoded.
MessageDecoded == codec.op = "Message::from_bytes" /\ Len(codec.input) >= 1

\* C27: the first byte alone selects the variant of a decoded Message: a
\* call that returns gives a Log or an error when the first byte is 16 and a
\* Response or an error when it is any other value.
C27_VariantFromFirstByte ==
    MessageDecoded =>
        /\ codec.result.ok =>
             codec.result.value.variant \in {"Log", "Response"}
        /\ codec.result.ok =>
             (codec.result.value.variant = "Log" <=> codec.input[1] = 16)
        /\ codec.result.ok /\ codec.result.value.variant = "Response" =>
             codec.result.value.opcode % 256 = codec.input[1]

\* C27 witness: a response to SetMask, whose first byte is 115.
C27_Witness ==
    /\ MessageDecoded
    /\ codec.input = <<115, 0, 0, 0, 3, 0, 0, 0, 0, 0, 0, 0>>
    /\ codec.result.ok
    /\ codec.result.value.variant = "Response"
    /\ codec.result.value.payload = [variant |-> "SetMask"]

\* The variant the ranges 0..=4, 5..=7, 8..=24 and 25..=255 give a version.
VariantOfRange(v) ==
    CHOOSE variant \in PacketVariants :
        \/ variant = "V0" /\ v \in 0..4
        \/ variant = "V5" /\ v \in 5..7
        \/ variant = "V8" /\ v \in 8..24
        \/ variant = "V25" /\ v \in 25..255

\* An LTE RRC log of some ext_header_version over a well-formed packet of
\* some layout has been decoded.
LteLogDecoded(layout) ==
    /\ MessageDecoded
    /\ Len(codec.input) >= 17
    /\ codec.input = LogBytes(16, 13 + Len(PacketBytes(layout)),
                              LteRrcOtaMessage,
                              <<codec.input[17]>> \o PacketBytes(layout))

\* C28: every ext_header_version in 0..=255 selects exactly one packet
\* variant, V0 for 0..=4, V5 for 5..=7, V8 for 8..=24 and V25 for 25..=255:
\* a decoded packet has the variant of the range its version lies in and no
\* other, and over that variant's layout every version decodes.
C28_ExactlyOneVariantPerVersion ==
    /\ MessageDecoded /\ codec.result.ok /\ codec.result.value.variant = "Log"
         /\ codec.result.value.body.variant = "LteRrcOtaMessage" =>
           LET v == codec.result.value.body.ext_header_version
               variant == codec.result.value.body.packet.variant
           IN /\ v \in 0..255
              /\ variant = "V0" <=> v \in 0..4
              /\ variant = "V5" <=> v \in 5..7
              /\ variant = "V8" <=> v \in 8..24
              /\ variant = "V25" <=> v \in 25..255
    /\ \A layout \in PacketVariants :
         LteLogDecoded(layout) /\ layout = VariantOfRange(codec.input[17]) =>
           /\ codec.result.ok
           /\ codec.result.rest = <<>>
           /\ codec.result.value.body.packet.variant = layout
           /\ codec.result.value.body.packet.packet = <<64, 1>>

\* C28 witness: version 24, the last of V8, over the V8 layout.
C28_Witness ==
    /\ LteLogDecoded("V8")
    /\ codec.input[17] = 24
    /\ codec.result.ok
    /\ codec.result.value.body.packet.variant = "V8"
    /\ codec.result.value.body.packet.earfcn = 67586

\* The accessors have been called on a packet.
AccessorsCalled == codec.op = "LteRrcOtaPacket accessors"

\* C29: in every variant and for every 16-bit sfn_subfn,
\* get_sfn() * 16 + get_subfn() = sfn_subfn with get_subfn() in 0..=15, and
\* get_pdu_num, get_earfcn and take_payload give the stored pdu_num, earfcn
\* (a 16-bit value in V0 and V5) and packet.
C29_Accessors ==
    AccessorsCalled =>
        LET p == codec.input
            r == codec.result
        IN /\ r.get_sfn * 16 + r.get_subfn = p.sfn_subfn
           /\ r.get_subfn \in 0..15
           /\ r.get_sfn \in 0..4095
           /\ r.get_pdu_num = p.pdu_num
           /\ r.get_earfcn = p.earfcn
           /\ p.variant \in {"V0", "V5"} => r.get_earfcn \in 0..65535
           /\ r.take_payload = p.packet

\* C29 witness: the V8 packet of test_logs' fields: sfn 253, subfn 9.
C29_Witness ==
    /\ AccessorsCalled
    /\ codec.input.variant = "V8"
    /\ codec.input.sfn_subfn = 4057
    /\ codec.input.earfcn = 2050
    /\ codec.result = [get_sfn |-> 253, get_subfn |-> 9, get_pdu_num |-> 5,
                       get_earfcn |-> 2050, take_payload |-> <<64, 1>>]

\* A DataType has been decoded.
DataTypeDecoded == codec.op = "DataType::from_bytes"

\* The log_type of a Log frame whose header is whole.
LogTypeOf(buf) == U16At(buf, 7)

\* C30: decoding a Log whose log_type is none of the eleven known ones is a
\* decode error, and decoding a DataType never fails on a 32-bit tag: 32
\* gives UserSpace and any other v gives Other(v).
C30_UnknownLogTypeIsError ==
    /\ MessageDecoded /\ codec.input[1] = 16 /\ Len(codec.input) >= 16
         /\ LogTypeOf(codec.input) \notin
                {16687, 20783, 21030, 45248, 45282, 45283, 45292, 45293,
                 4587, 28986, 47137} =>
           ~codec.result.ok /\ ~codec.result.panic
    /\ DataTypeDecoded =>
         /\ codec.result.ok
         /\ codec.tag = 32 => codec.result.value = UserSpace
         /\ codec.tag # 32 => codec.result.value = Other(codec.tag)

\* A Log frame with a whole header and a known log_type has been decoded.
LogDecoded ==
    /\ MessageDecoded
    /\ codec.input[1] = 16
    /\ Len(codec.input) >= 16
    /\ LogTypeOf(codec.input) \in KnownLogTypes

\* The header length a Log frame passes to its body, as an integer:
\* inner_length - 12, negative when inner_length is below 12.
HeaderLength(buf) == U16At(buf, 5) - 12

\* The bytes of a Log frame after its 16 bytes of header.
BodyOf(buf) == SubSeq(buf, 17, Len(buf))

\* The number of fixed bytes a body of the log type of buf has before its
\* payload (for an LTE RRC body, the version byte and the fixed fields of
\* the layout of the version); -1 if the body is too short to tell.
FixedBytes(buf) ==
    LET lt == LogTypeOf(buf)
        body == BodyOf(buf)
    IN CASE lt = 16687 -> 4
         [] lt \in {20783, 21030} -> 3
         [] lt = 45248 ->
              IF body = <<>> THEN -1
              ELSE IF body[1] <= 4 THEN 13
              ELSE IF body[1] <= 7 THEN 17
              ELSE IF body[1] <= 24 THEN 19
              ELSE 21
         [] lt \in {45282, 45283, 45292, 45293} -> 4
         [] lt = 28986 -> 5
         [] OTHER -> 0

\* The payload length of a Log frame whose fixed bytes are whole: declared
\* in the body (the last length field of the fixed bytes) or derived from
\* the header length.
PayloadLength(buf) ==
    LET lt == LogTypeOf(buf)
        body == BodyOf(buf)
        f == FixedBytes(buf)
    IN CASE lt = 16687 -> body[3] + 256 * body[4]
         [] lt \in {20783, 21030} -> body[3]
         [] lt = 45248 -> body[f - 1] + 256 * body[f]
         [] lt \in {45282, 45283, 45292, 45293} -> HeaderLength(buf) - 4
         [] lt = 4587 -> HeaderLength(buf) - 8
         [] lt = 28986 -> LeValue(SubSeq(body, 2, 5))
         [] OTHER -> HeaderLength(buf)

\* The fixed bytes of the body are whole, and the payload length exceeds the
\* bytes that are left after them.
PayloadCutShort(buf) ==
    /\ FixedBytes(buf) >= 0
    /\ Len(BodyOf(buf)) >= FixedBytes(buf)
    /\ PayloadLength(buf) > Len(BodyOf(buf)) - FixedBytes(buf)

\* The payload of a decoded Log body.
PayloadOf(body) ==
    IF body.variant = "LteRrcOtaMessage" THEN body.packet.packet ELSE body.msg

\* C31: for every LogBody variant, a payload length (declared in the body or
\* derived from the header length) that exceeds the bytes left in the buffer
\* makes the decoding of the message fail with an error; a message is never
\* returned with a shorter payload, nor with bytes from beyond the buffer.
C31_CutShortPayloadIsError ==
    LogDecoded =>
        /\ PayloadCutShort(codec.input) =>
             ~codec.result.ok /\ ~codec.result.panic
        /\ codec.result.ok /\ HeaderLength(codec.input) >= 0
             /\ PayloadLength(codec.input) >= 0 =>
               /\ Len(PayloadOf(codec.result.value.body)) =
                      PayloadLength(codec.input)
               /\ codec.input =
                      SubSeq(codec.input, 1,
                             16 + FixedBytes(codec.input)
                                + PayloadLength(codec.input))
                          \o codec.result.rest

\* A frame of at least 12 bytes has been decoded whose first byte is not 16.
ResponseDecoded ==
    /\ MessageDecoded
    /\ codec.input[1] # 16
    /\ Len(codec.input) >= 12

\* C32: a Response is read as opcode, subopcode and status, 32 bits each,
\* and a payload chosen by (opcode, subopcode): (115, 1) gives
\* RetrieveIdRanges with exactly 16 32-bit mask sizes, (115, 3) gives SetMask
\* and reads no payload byte, and every other pair is a decode error.
C32_ResponsePayloadByOpcodes ==
    ResponseDecoded =>
        LET buf == codec.input
            r == codec.result
            is115 == SubSeq(buf, 1, 4) = <<115, 0, 0, 0>>
            is1 == SubSeq(buf, 5, 8) = <<1, 0, 0, 0>>
            is3 == SubSeq(buf, 5, 8) = <<3, 0, 0, 0>>
        IN /\ ~r.panic
           /\ r.ok <=> is115 /\ ((is1 /\ Len(buf) >= 76) \/ is3)
           /\ r.ok =>
                /\ r.value.variant = "Response"
                /\ r.value.opcode = 115
                /\ r.value.subopcode = (IF is1 THEN 1 ELSE 3)
                /\ r.value.status = LeValue(SubSeq(buf, 9, 12))
           /\ r.ok /\ is1 =>
                /\ r.value.payload.variant = "RetrieveIdRanges"
                /\ DOMAIN r.value.payload.log_mask_sizes = 1..16
                /\ \A k \in 1..16 :
                     r.value.payload.log_mask_sizes[k] =
                         LeValue(SubSeq(buf, 9 + 4 * k, 12 + 4 * k))
                /\ r.rest = SubSeq(buf, 77, Len(buf))
           /\ r.ok /\ is3 =>
                /\ r.value.payload = [variant |-> "SetMask"]
                /\ r.rest = SubSeq(buf, 13, Len(buf))

\* C32 witness: a response to RetrieveIdRanges with status 1, the sizes 1 to
\* 16, and one byte after them.
C32_Witness ==
    /\ ResponseDecoded
    /\ codec.input = ResponseBytes(115, 1, 1, MaskSizesBytes(1) \o <<9>>)
    /\ codec.result.ok
    /\ codec.result.value.status = 1
    /\ codec.result.value.payload.log_mask_sizes = [k \in 1..16 |-> k]
    /\ codec.result.rest = <<9>>

\* to_datetime has been called.
DatetimeMade == codec.op = "Timestamp::to_datetime"

\* For a ts with upper = ts >> 16 and a number R of milliseconds,
\* upper * 1.25 - R in units of 1/40960 ms: 10240 * (5 * upper - 4 * R),
\* a small number when R is near upper * 1.25.
TicksBeyond(w, R) ==
    LET upper_hi == (w[3] \div 16) + w[4] * 4096
        upper_lo == w[2] + (w[3] % 16) * 65536
    IN 10240 * ((5 * upper_hi - 4 * R.hi) * Base + (5 * upper_lo - 4 * R.lo))

\* C33 (as claimed): to_datetime gives the epoch plus
\* floor(upper * 1.25 + lower * 1000 / 40960) milliseconds.
C33_SubTickInSeconds ==
    DatetimeMade =>
        LET w == codec.input.ts
            R == codec.result.milliseconds
            beyond == TicksBeyond(w, R) + w[1] * 1000
        IN /\ codec.result.epoch = "1980-01-06T00:00:00-00:00"
           /\ 0 <= beyond /\ beyond < 40960

\* C33 (amended): to_datetime gives the epoch plus R milliseconds, R being
\* the f64 value upper * 1.25 + lower / 40960 without its fraction, the
\* sub-tick term counted in milliseconds: R is
\* floor(upper * 1.25 + lower / 40960) for every ts below 2^53, and for a
\* larger ts it is that floor or, when the exact sum lies within 1/32 ms
\* below the next whole number, that number.
C33_SubTickInMilliseconds ==
    DatetimeMade =>
        LET w == codec.input.ts
            R == codec.result.milliseconds
            beyond == TicksBeyond(w, R) + w[1]
        IN /\ codec.result.epoch = "1980-01-06T00:00:00-00:00"
           /\ R.lo \in 0..(Base - 1) /\ R.hi >= 0
           /\ -1280 <= beyond /\ beyond < 40960
           /\ w[4] < 32 => 0 <= beyond

\* C33 witness: the timestamp of test_logs, 72659535985485082, whose sub-tick
\* term is 42266 / 40960: 1385870666227 ms after the epoch.
C33_Witness ==
    /\ DatetimeMade
    /\ codec.input.ts = <<42266, 34805, 9078, 258>>
    /\ codec.result.milliseconds = [hi |-> 1321669, lo |-> 272883]

\* A Log frame of a log type whose payload length comes from the header
\* length has been decoded, the header length being at least the n bytes its
\* variant takes off it.
HeaderSizedLogDecoded(types, n) ==
    /\ LogDecoded
    /\ LogTypeOf(codec.input) \in types
    /\ HeaderLength(codec.input) >= n

\* Decoding gave a body of the variant with exactly the bytes after the fixed
\* ones as fields, the next count bytes as msg and the bytes after them
\* unread, or an error if fewer than fixed + count bytes were there.
BodyConsumes(variant, fixed, count) ==
    LET body == BodyOf(codec.input)
        r == codec.result
    IN /\ ~r.panic
       /\ r.ok <=> Len(body) >= fixed + count
       /\ r.ok =>
            /\ r.value.body.variant = variant
            /\ r.value.body.msg = SubSeq(body, fixed + 1, fixed + count)
            /\ r.rest = SubSeq(body, fixed + count + 1, Len(body))

\* C34: with the header length inner_length - 12 passed to the body, a
\* NAS-4G body (log types 0xb0e2, 0xb0e3, 0xb0ec, 0xb0ed) takes 4 fixed bytes
\* and then exactly header length - 4 payload bytes, an IP traffic body
\* (0x11eb) exactly header length - 8 payload bytes and an NR RRC body
\* (0xb821) exactly header length payload bytes; the four NAS log types are
\* decoded alike.
C34_HeaderSizedPayloads ==
    /\ HeaderSizedLogDecoded({45282, 45283, 45292, 45293}, 4) =>
         /\ BodyConsumes("Nas4GMessage", 4, HeaderLength(codec.input) - 4)
         /\ codec.result.ok =>
              /\ codec.result.value.body.fields =
                     [ext_header_version |-> codec.input[17],
                      rrc_rel |-> codec.input[18],
                      rrc_version_minor |-> codec.input[19],
                      rrc_version_major |-> codec.input[20]]
              /\ codec.result.value.body =
                     ReadMessage([codec.input EXCEPT ![7] = 226, ![8] = 176],
                                 codec.overflow_checks).value.body
    /\ HeaderSizedLogDecoded({4587}, 8) =>
         BodyConsumes("IpTraffic", 0, HeaderLength(codec.input) - 8)
    /\ HeaderSizedLogDecoded({47137}, 0) =>
         BodyConsumes("NrRrcOtaMessage", 0, HeaderLength(codec.input))

\* C34 witness: an outgoing EMM NAS log with inner_length 18: 4 fixed bytes
\* and a payload of 18 - 12 - 4 = 2 bytes.
C34_Witness ==
    /\ HeaderSizedLogDecoded({45293}, 4)
    /\ codec.input = LogBytes(16, 18, 45293, <<1, 2, 2, 0, 7, 9>>)
    /\ codec.result.ok
    /\ codec.result.value.body.msg = <<7, 9>>
    /\ codec.result.rest = <<>>

\* The number of fixed bytes of each packet layout, its len field being the
\* last two of them.
LayoutBytes(variant) ==
    CASE variant = "V0" -> 12
      [] variant = "V5" -> 16
      [] variant = "V8" -> 18
      [] OTHER -> 20

\* C35: decoding a well-formed Log frame reads, after the id 16, pending_msgs
\* (1 byte), outer_length, inner_length and log_type (16 bits little-endian
\* each) and the timestamp (64 bits little-endian), and for log_type 0xb0c0
\* the ext_header_version and the packet of the layout it selects with
\* exactly len payload bytes; the frame of test_logs gives log_type 0xb0c0,
\* ts 72659535985485082 (in 16-bit limbs 42266, 34805, 9078, 258), version
\* 20 and a V8 packet with earfcn 2050, sfn_subfn 4057 (sfn 253, subfn 9),
\* pdu_num 5 and the 7 payload bytes.
C35_LogFrameLayout ==
    /\ MessageDecoded /\ codec.result.ok /\ codec.result.value.variant = "Log" =>
         LET buf == codec.input
             v == codec.result.value
         IN /\ buf[1] = 16
            /\ v.pending_msgs = buf[2]
            /\ v.outer_length = buf[3] + 256 * buf[4]
            /\ v.inner_length = buf[5] + 256 * buf[6]
            /\ v.log_type = buf[7] + 256 * buf[8]
            /\ v.timestamp.ts =
                   <<buf[9] + 256 * buf[10], buf[11] + 256 * buf[12],
                     buf[13] + 256 * buf[14], buf[15] + 256 * buf[16]>>
            /\ v.log_type = 45248 =>
                 LET n == LayoutBytes(v.body.packet.variant)
                 IN /\ v.body.variant = "LteRrcOtaMessage"
                    /\ v.body.ext_header_version = buf[17]
                    /\ v.body.packet.variant = VariantOfRange(buf[17])
                    /\ v.body.packet.len = buf[16 + n] + 256 * buf[17 + n]
                    /\ v.body.packet.packet =
                           SubSeq(buf, 18 + n, 17 + n + v.body.packet.len)
                    /\ codec.result.rest =
                           SubSeq(buf, 18 + n + v.body.packet.len, Len(buf))
    /\ MessageDecoded /\ codec.input = ReferenceFrame(16) =>
         /\ codec.result.ok
         /\ codec.result.rest = <<>>
         /\ codec.result.value =
                [variant |-> "Log", pending_msgs |-> 0, outer_length |-> 38,
                 inner_length |-> 38, log_type |-> 45248,
                 timestamp |-> [ts |-> <<42266, 34805, 9078, 258>>],
                 body |-> [variant |-> "LteRrcOtaMessage",
                           ext_header_version |-> 20,
                           packet |-> [variant |-> "V8", rrc_rel_maj |-> 14,
                                       rrc_rel_min |-> 48, bearer_id |-> 0,
                                       phy_cell_id |-> 160, earfcn |-> 2050,
                                       sfn_subfn |-> 4057, pdu_num |-> 5,
                                       sib_mask |-> 0, len |-> 7,
                                       packet |-> <<64, 1, 238, 173, 213, 77,
                                                    208>>]]]
         /\ get_sfn(codec.result.value.body.packet) = 253
         /\ get_subfn(codec.result.value.body.packet) = 9

\* C35 witness: the frame of test_logs, decoded to the end.
C35_Witness ==
    /\ MessageDecoded
    /\ codec.input =
           <<16, 0, 38, 0, 38, 0, 192, 176, 26, 165, 245, 135, 118, 35, 2, 1,
             20, 14, 48, 0, 160, 0, 2, 8, 0, 0, 217, 15, 5, 0, 0, 0, 0, 7, 0,
             64, 1, 238, 173, 213, 77, 208>>
    /\ codec.result.ok
    /\ codec.result.value.body.packet.earfcn = 2050
    /\ take_payload(codec.result.value.body.packet) =
           <<64, 1, 238, 173, 213, 77, 208>>

\* A Log frame has been decoded whose inner_length is smaller than the fixed
\* overhead of its variant: below 12, or below 12 + 4 in a NAS-4G log whose 4
\* fixed bytes are there, or below 12 + 8 in an IP traffic log.
ShortInnerLengthDecoded ==
    /\ MessageDecoded
    /\ codec.input[1] = 16
    /\ Len(codec.input) >= 16
    /\ \/ HeaderLength(codec.input) < 0
       \/ /\ LogTypeOf(codec.input) \in {45282, 45283, 45292, 45293}
          /\ Len(codec.input) >= 20
          /\ HeaderLength(codec.input) < 4
       \/ /\ LogTypeOf(codec.input) = 4587
          /\ HeaderLength(codec.input) < 8

\* C39: decoding a Log whose inner_length is smaller than the fixed overhead
\* of its variant is a decode error: the subtractions inner_length - 12,
\* hdr_len - 4 and hdr_len - 8 neither wrap around into a large payload
\* length nor abort the thread.
C39_ShortInnerLengthIsError ==
    ShortInnerLengthDecoded => ~codec.result.ok /\ ~codec.result.panic

\* C36 (as claimed): when the task, having analyzed a container with an
\* analyzer attached, takes the store lock, the store has a current entry:
\* the `expect` on current_entry never fires, whatever stop_recording and
\* the ctrl-c task did in between.
C36_CurrentEntryWhenLockTaken ==
    [][(pc = "lock" /\ pc' # "lock") => store.current_entry # None]_vars

\* A handler or the ctrl-c task holds the store lock and waits for room in
\* the control channel, whose receiver is still there.
SenderWaitsForChannelSpace ==
    /\ \/ lock = "http" /\ h_pc \in {"start_ctrl", "stop_ctrl"}
       \/ lock = "ctrlc" /\ ctrlc_pc = "send_exit"
    /\ ~CanSend(ctrl_chan, CtrlCapacity, pc \notin Ended)

\* The task waits for the store lock while processing a container.
PipelineWaitsForLock == pc = "lock" /\ lock # "free"

\* C37 (as claimed): the pipeline task, the start_recording / stop_recording
\* handlers and the ctrl-c task never block each other for good: in no
\* reachable state does a sender wait for room in the control channel, with
\* the store lock held, while the pipeline waits for that lock.
C37_DeadlockFree ==
    ~(SenderWaitsForChannelSpace /\ PipelineWaitsForLock)

\* C38 (as claimed): the sizes stored for an entry count only what that
\* entry's own recorder and analyzer wrote: the raw size never exceeds the
\* bytes written by the entry's recorder, the analysis size never exceeds
\* the output of the entry's analyzer, whatever start_recording did between
\* the creation of an entry and the processing of a container.
C38_SizesAttributedToOwnEntry ==
    \A e \in DOMAIN store.entries :
        /\ store.entries[e].qmdl_size_bytes <= total_written[e]
        /\ store.entries[e].analysis_size_bytes <= analyzer[e].len

\* The number of StartRecording messages carrying the writers of entry e
\* that have been sent: those still in the control channel and those the
\* pipeline has received.
StartsSent(e, chan, history) ==
    Cardinality({k \in DOMAIN chan : chan[k] = StartRecording(e)})
        + Cardinality({k \in DOMAIN history :
                          history[k].ev = "Start" /\ history[k].arg = e})

\* C40 (as claimed): in the step in which start_recording returns, if the
\* response is an error then no StartRecording of this call has been sent
\* and the store's current entry is the one the call found; if the response
\* is ACCEPTED then exactly one StartRecording carrying the writers of the
\* entry the call created has been sent.
C40_StartAllOrNothing ==
    [][(h_call'.op = "start_recording" /\ h_call'.response # "none"
            /\ h_call' # h_call) =>
          LET e == Len(h_call'.before.entries) + 1 IN
          IF h_call'.response = Accepted
          THEN /\ Len(store'.entries) = e
               /\ StartsSent(e, ctrl_chan', log') = 1
          ELSE /\ StartsSent(e, ctrl_chan', log') = 0
               /\ store'.current_entry = h_call'.before.current_entry
      ]_vars

====
